---- MODULE Spec2Model ----
(***************************************************************************)
(* Transfer orchestration of devgagan/core/get_func.py.                    *)
(*                                                                         *)
(* One behaviour is one invocation: either get_msg (one transfer through   *)
(* SmartTelegramBot.handle_message_download) or a direct call of           *)
(* FileOperations.split_large_file.  Every await of the code is one step   *)
(* with the outcomes the awaited call can have: it returns, it raises, or  *)
(* the task is cancelled while waiting (before or after the awaited call   *)
(* took effect).                                                           *)
(*                                                                         *)
(* File sizes are counted in blocks of 1024**3 / GiB bytes: TLC's integers *)
(* are 32 bits wide and 2 * 1024**3 does not fit.                          *)
(***************************************************************************)
EXTENDS Integers, Sequences, FiniteSets, TLC

VARIABLES
    pc,     \* position of the running coroutine
    exc,    \* exception in flight ("none" when there is none)
    ctx,    \* the function whose try block encloses the running callee
    cfg,    \* what the invocation was given and how the process is configured
    loc,    \* local variables of the running functions
    w       \* the world: disk, chats, store, and the record of calls made

vars == <<pc, exc, ctx, cfg, loc, w>>

\* ------------------------------------------------------------------ sizes

\* Blocks per 1024**3 bytes.
GiB == 10
\* Largest number of parts a source file is drawn for.
MaxParts == 3

SIZE_LIMIT == 2 * GiB
PART_SIZE == (19 * GiB) \div 10
MaxFileSize == MaxParts * PART_SIZE

Min(a, b) == IF a < b THEN a ELSE b

\* The bytes of a file of n blocks: every block differs from every other.
Content(n) == [i \in 1..n |-> i]

RECURSIVE Concat(_)
Concat(ss) == IF ss = <<>> THEN <<>> ELSE Head(ss) \o Concat(Tail(ss))

CeilDiv(a, b) == (a + b - 1) \div b

\* ------------------------------------------------------------- exceptions

\* Error: an Exception; Access: ChannelBanned, ChannelInvalid, ChannelPrivate,
\* ChatIdInvalid or ChatInvalid; Cancelled: asyncio.CancelledError, which is
\* a BaseException and passes every `except Exception`.
\* Rpc: what a call on the source chat, the target chat or LOG_GROUP content
\* can raise; Os: what a disk operation, a store read, or a call on the
\* requester's own chat (status and progress messages, reports) can raise.
Rpc == {"Error", "Access", "Cancelled"}
Os == {"Error", "Cancelled"}

Target(p, e, c) == [pc |-> p, exc |-> e, ctx |-> c]

Goto(t) == pc' = t.pc /\ exc' = t.exc /\ ctx' = t.ctx

\* The except clauses of handle_message_download.
HmdHandler(k) ==
    CASE k = "Access" -> Target("hmd_except_access", k, "hmd")
      [] k = "Error" -> Target("hmd_except", k, "hmd")
      [] OTHER -> Target("hmd_finally", k, "hmd")

\* The except clause of _copy_public_message: it prints and goes on.
CpmHandler(k) ==
    IF k = "Cancelled" THEN Target("cpm_finally", k, "cpm")
                       ELSE Target("cpm_finally", "none", "cpm")

\* An exception k leaves the running callee and reaches its caller.
Propagate(k) ==
    CASE ctx = "hmd" -> HmdHandler(k)
      [] ctx = "cpm" -> CpmHandler(k)
      [] OTHER -> Target("done", k, ctx)

\* A callee returns normally; its caller has nothing left to do in its try.
Return ==
    CASE ctx = "hmd" -> Target("hmd_finally", "none", "hmd")
      [] ctx = "cpm" -> Target("cpm_finally", "none", "cpm")
      [] OTHER -> Target("done", "none", ctx)

HmdTry ==
    {"pml_protected", "pml_public", "hmd_fetch", "hmd_missing",
     "hsm_send", "hsm_copy", "hsm_delete", "hmd_edit", "hmd_download",
     "hmd_rename", "hmd_photo_send", "hmd_photo_copy", "hmd_photo_delete",
     "hmd_chk", "hmd_split_delete", "pml_story", "pml_story_login"}

\* The try block of _download_user_stories.
DusTry ==
    {"dus_edit", "dus_get", "dus_nomedia", "dus_download", "dus_uploading",
     "dus_send", "dus_done"}

HdmTry == {"hdm_send", "hdm_copy", "hdm_delete"}

CpmTry ==
    {"cpm_fetch", "cpm_photo", "cpm_text", "cpm_copy", "cpm_delete",
     "cpm_fb_edit", "cpm_getchat", "cpm_fb_fetch", "cpm_fb_missing",
     "cpm_fb_text", "cpm_fb_textdel", "cpm_download", "cpm_rename",
     "cpm_fb_photo", "cpm_chk", "cpm_split_delete"}

\* Where an exception k raised at position `here` continues.
Unwind(here, k) ==
    CASE here \in HmdTry -> HmdHandler(k)
      [] here \in HdmTry ->
            IF k = "Cancelled" THEN HmdHandler(k)
                               ELSE Target("hmd_edit", "none", ctx)
      [] here \in {"hmd_except_access", "hmd_except"} ->
            Target("hmd_finally", k, "hmd")
      [] here \in DusTry ->
            IF k \in {"Rpc", "Access"} THEN Target("dus_except", k, "hmd")
                                       ELSE HmdHandler(k)
      [] here = "dus_except" -> HmdHandler(k)
      [] here \in CpmTry -> CpmHandler(k)
      [] here = "slf_entry" -> Propagate(k)
      [] here \in {"slf_read", "slf_write", "slf_status"} ->
            Target("slf_finally", k, ctx)
      [] here \in {"slf_upload", "slf_copy", "slf_editdel"} ->
            Target("slf_part_finally", k, ctx)
      [] here = "slf_finally" -> Propagate(k)
      [] here = "hlu_entry" -> Propagate(k)
      [] here \in {"hlu_upload", "hlu_chk", "hlu_copy"} ->
            IF k = "Cancelled" THEN Target("hlu_finally", k, ctx)
                               ELSE Target("hlu_except", k, ctx)
      [] here = "hlu_except" -> Target("hlu_finally", k, ctx)
      [] here = "hlu_finally" -> Propagate(k)
      [] here \in {"pyro_thumb", "pyro_send", "pyro_copy"} ->
            IF k = "Cancelled" THEN Target("pyro_finally", k, ctx)
                               ELSE Target("pyro_except", k, ctx)
      [] here = "pyro_except" -> Target("pyro_finally", k, ctx)
      [] here \in {"tele_editdel", "tele_progress", "tele_upload",
                   "tele_progdel", "tele_send", "tele_mirror"} ->
            IF k = "Cancelled" THEN Propagate(k)
                               ELSE Target("tele_except", k, ctx)
      [] here = "tele_except" -> Propagate(k)
      [] OTHER -> Target("done", k, ctx)

\* One await at position `here`, of a call that can succeed only when `can`
\* holds.  okW, okLoc: the world and the locals after the awaited call
\* returned; next: where the code continues then.  kinds: what the call can
\* raise; failWs: the worlds a failed call can leave.  The last disjunct is a
\* cancellation delivered after the awaited call completed: its effect
\* stands, its result is never assigned.
AwaitWhen(can, here, okW, okLoc, next, kinds, failWs) ==
    /\ pc = here
    /\ \/ /\ can
          /\ w' = okW
          /\ loc' = okLoc
          /\ Goto(next)
       \/ /\ \E k \in kinds, fw \in failWs :
                /\ w' = [fw EXCEPT !.cancelled = @ \/ k = "Cancelled",
                                   !.raised = IF k = "Cancelled" THEN @ ELSE @ + 1]
                /\ Goto(Unwind(here, k))
          /\ loc' = loc
       \/ /\ can
          /\ w' = [okW EXCEPT !.cancelled = TRUE]
          /\ loc' = loc
          /\ Goto(Unwind(here, "Cancelled"))
    /\ UNCHANGED cfg

Await(here, okW, okLoc, next, kinds, failWs) ==
    AwaitWhen(TRUE, here, okW, okLoc, next, kinds, failWs)

\* edit_msg.delete() or app.delete_messages(sender, edit_id): the status
\* message is gone; a failed call has been tried all the same.
StatusDeleted == [w EXCEPT !.status = "deleted", !.delTried = TRUE]

DeleteFailed == [w EXCEPT !.delTried = TRUE]

\* A step without an await: it cannot be interrupted.
Sync(here, okW, okLoc, t) ==
    /\ pc = here
    /\ w' = okW
    /\ loc' = okLoc
    /\ Goto(t)
    /\ UNCHANGED cfg

\* The code goes on at position p, in the same frame.
At(p) == Target(p, exc, ctx)

\* ------------------------------------------------------- split_large_file

DigitChars == <<"0", "1", "2", "3", "4", "5", "6", "7", "8", "9">>

\* str(n): the decimal digits of n.
RECURSIVE Digits(_)
Digits(n) ==
    IF n < 10 THEN <<DigitChars[n + 1]>>
    ELSE Append(Digits(n \div 10), DigitChars[(n % 10) + 1])

\* str.zfill(width)
RECURSIVE ZFill(_, _)
ZFill(s, width) == IF Len(s) >= width THEN s ELSE ZFill(<<"0">> \o s, width)

\* int(s) of a string of digits.
RECURSIVE Number(_)
Number(s) ==
    IF s = <<>> THEN 0
    ELSE 10 * Number(SubSeq(s, 1, Len(s) - 1))
            + (CHOOSE d \in 0..9 : DigitChars[d + 1] = s[Len(s)])

\* A part file that carries its bare number.
PartFile_Unpadded(part_number) == Digits(part_number)

\* line 312: the part of the part file's name that changes from part to
\* part, str(part_number).zfill(3).
PartFile(part_number) == ZFill(Digits(part_number), 3)

PartNames == {p.name : p \in w.parts}

PartData(name) == (CHOOSE p \in w.parts : p.name = name).data

\* A read that returns only full parts: the short tail of the file is lost.
ReadChunk_DropsTail(size, pos) ==
    IF pos + PART_SIZE <= size
    THEN SubSeq(Content(size), pos + 1, pos + PART_SIZE)
    ELSE <<>>

\* f.read(PART_SIZE) at offset pos of a file of size blocks.
ReadChunk(size, pos) == SubSeq(Content(size), pos + 1, Min(pos + PART_SIZE, size))

\* open(part_file, "wb") and write(chunk): the file is created or truncated.
WritePart(parts, name, data) ==
    {p \in parts : p.name # name} \cup {[name |-> name, data |-> data]}

RemovePart(parts, name) == {p \in parts : p.name # name}

\* line 317: the base caption, a blank line and the part's number, or the
\* number alone when there is no base caption.
PartCaption(caption, part_number) ==
    IF caption # ""
    THEN <<caption, "\n\n", "**Part: ">> \o Digits(part_number + 1) \o <<"**">>
    ELSE <<"**Part: ">> \o Digits(part_number + 1) \o <<"**">>

Sent(op, data, caption) == [op |-> op, data |-> data, caption |-> caption]

\* lines 293-295: the source is missing.
SplitNotFound ==
    /\ loc.file_path \notin w.files
    /\ Await("slf_entry",
             [w EXCEPT !.userMsgs = @ + 1], loc, Return, Os, {w})

\* lines 297-303: getsize, the start message, part_number = 0.
SplitStart ==
    /\ loc.file_path \in w.files
    /\ Await("slf_entry",
             [w EXCEPT !.userMsgs = @ + 1],
             [loc EXCEPT !.part_number = 0, !.pos = 0, !.start_msg = TRUE],
             At("slf_read"), Os, {w})

\* lines 308-310: read the next chunk; an empty chunk ends the loop.
SplitRead ==
    /\ pc = "slf_read"
    /\ LET chunk == ReadChunk(w.size, loc.pos) IN
       Await("slf_read", w,
             [loc EXCEPT !.chunk = chunk, !.pos = @ + Len(chunk)],
             IF chunk = <<>> THEN At("slf_finally") ELSE At("slf_write"),
             Os, {w})

\* lines 312-315: write the chunk to the part file.  A failed write leaves
\* the file open() created.
SplitWrite ==
    /\ pc = "slf_write"
    /\ Await("slf_write",
             [w EXCEPT !.parts = WritePart(@, PartFile(loc.part_number), loc.chunk),
                       !.written = Append(@, PartFile(loc.part_number))],
             loc, At("slf_status"), Os,
             {w, [w EXCEPT !.parts = WritePart(@, PartFile(loc.part_number), <<>>)]})

\* lines 317-319: the part's caption and its status message in the target.
SplitStatus ==
    /\ pc = "slf_status"
    /\ Await("slf_status",
             [w EXCEPT !.notices = @ + 1],
             [loc EXCEPT !.part_caption = PartCaption(loc.caption, loc.part_number)],
             At("slf_upload"), Rpc, {w})

\* lines 322-329: upload the part file to the target.
SplitUpload ==
    /\ pc = "slf_upload"
    /\ Await("slf_upload",
             [w EXCEPT !.sent = Append(@, Sent("send_document",
                                               PartData(PartFile(loc.part_number)),
                                               loc.part_caption)),
                       !.uploaded = Append(@, [file |-> PartFile(loc.part_number),
                                               caption |-> loc.part_caption])],
             loc, At("slf_copy"), Rpc,
             {[w EXCEPT !.failedPart = loc.part_number]})

\* line 330: mirror the part.
SplitCopy ==
    /\ pc = "slf_copy"
    /\ Await("slf_copy",
             [w EXCEPT !.mirrorTried = @ + 1, !.mirrored = @ + 1],
             loc, At("slf_editdel"), Rpc, {[w EXCEPT !.mirrorTried = @ + 1]})

\* line 331: delete the part's status message.
SplitEditDelete ==
    /\ pc = "slf_editdel"
    /\ Await("slf_editdel", [w EXCEPT !.notices = @ - 1], loc,
             At("slf_part_finally"), Os, {w})

\* A loop that passes over the failure of a part and goes on with the next.
PartFinallyNext_Continues == Target("slf_read", "none", ctx)

\* lines 332-336: after the inner finally the loop goes on when nothing was
\* raised; an exception in flight leaves the loop.
PartFinallyNext == IF exc = "none" THEN At("slf_read") ELSE At("slf_finally")

\* lines 332-336: the inner finally removes the part file; the loop goes on
\* when nothing was raised.
\* os.remove(part_file) can raise: the part file stays and the OSError leaves
\* the finally block in place of whatever was in flight.
SplitPartFinally ==
    \/ /\ pc = "slf_part_finally"
       /\ Sync("slf_part_finally",
               [w EXCEPT !.parts = RemovePart(@, PartFile(loc.part_number))],
               IF exc = "none" THEN [loc EXCEPT !.part_number = @ + 1] ELSE loc,
               PartFinallyNext)
    \/ /\ pc = "slf_part_finally"
       /\ Sync("slf_part_finally", [w EXCEPT !.raised = @ + 1], loc,
               Target("slf_finally", "Error", ctx))

\* lines 338-341: the outer finally deletes the start message, then removes
\* the source; an exception in flight goes on to the caller.
\* os.remove(file_path) can raise after the delete succeeded.
SplitFinally ==
    \/ /\ pc = "slf_finally"
       /\ Await("slf_finally",
                [w EXCEPT !.userMsgs = @ - 1, !.files = @ \ {loc.file_path}],
                loc,
                IF exc = "none" THEN Return ELSE Propagate(exc),
                Os, {w})
    \/ /\ pc = "slf_finally"
       /\ loc.file_path \in w.files
       /\ w' = [w EXCEPT !.userMsgs = @ - 1, !.raised = @ + 1]
       /\ loc' = loc
       /\ Goto(Propagate("Error"))
       /\ UNCHANGED cfg

SplitNext ==
    \/ SplitNotFound
    \/ SplitStart
    \/ SplitRead
    \/ SplitWrite
    \/ SplitStatus
    \/ SplitUpload
    \/ SplitCopy
    \/ SplitEditDelete
    \/ SplitPartFinally
    \/ SplitFinally

\* ------------------------------------------------- upload_with_pyrogram

\* lines 147-158 on the name get_media_info gave (lines 160-177): a document,
\* video or audio keeps the name the message carries, whatever its extension.
FileTypes(kind) ==
    CASE kind \in {"video", "document", "audio"} -> {"video", "photo", "audio", "document"}
      [] kind \in {"photo", "sticker"} -> {"photo"}
      [] kind = "voice" -> {"audio"}
      [] kind = "video_note" -> {"video"}
      [] OTHER -> {"document"}

SendOp(file_type) ==
    CASE file_type = "video" -> "send_video"
      [] file_type = "photo" -> "send_photo"
      [] file_type = "audio" -> "send_audio"
      [] OTHER -> "send_document"

\* lines 401-402: get_file_type goes by the extension of the renamed file.
PyroEntry ==
    /\ pc = "pyro_entry"
    /\ \E ft \in FileTypes(loc.msg) :
          Sync("pyro_entry", w, [loc EXCEPT !.file_type = ft],
               IF ft = "video" THEN At("pyro_thumb") ELSE At("pyro_send"))

\* lines 418-422: the screenshot; whatever it raises is passed over.
PyroThumb ==
    /\ pc = "pyro_thumb"
    /\ \E cancel \in BOOLEAN : w' = [w EXCEPT !.cancelled = @ \/ cancel]
    /\ loc' = loc
    /\ Goto(At("pyro_send"))
    /\ UNCHANGED cfg

\* lines 424-470: send the file to the target by its type.
PyroSend ==
    /\ pc = "pyro_send"
    /\ Await("pyro_send",
             [w EXCEPT !.sent = Append(@, Sent(SendOp(loc.file_type),
                                               Content(w.size), <<loc.caption, 0>>))],
             loc, At("pyro_copy"), Rpc, {w})

\* lines 472-474: mirror, return.
PyroCopy ==
    /\ pc = "pyro_copy"
    /\ Await("pyro_copy",
             [w EXCEPT !.mirrorTried = @ + 1, !.mirrored = @ + 1],
             loc, At("pyro_finally"), Rpc, {[w EXCEPT !.mirrorTried = @ + 1]})

\* lines 476-478: report to LOG_GROUP, raise again.
PyroExcept ==
    /\ pc = "pyro_except"
    /\ Await("pyro_except", [w EXCEPT !.logErrs = @ + 1], loc,
             At("pyro_finally"), Os, {w})

\* lines 479-484: delete the status message; `except: pass` takes whatever
\* the delete raises, a cancellation included.
PyroFinally ==
    /\ pc = "pyro_finally"
    /\ \E deleted \in BOOLEAN :
          w' = IF ~loc.edit_msg THEN w
               ELSE IF deleted THEN StatusDeleted ELSE DeleteFailed
    /\ loc' = loc
    /\ Goto(IF exc = "none" THEN Return ELSE Propagate(exc))
    /\ UNCHANGED cfg

PyroNext ==
    \/ PyroEntry
    \/ PyroThumb
    \/ PyroSend
    \/ PyroCopy
    \/ PyroExcept
    \/ PyroFinally

\* ------------------------------------------------- upload_with_telethon

\* lines 489-490
TeleEditDelete ==
    /\ pc = "tele_editdel"
    /\ Await("tele_editdel", StatusDeleted, loc,
             At("tele_progress"), Os, {DeleteFailed})

\* line 492
TeleProgress ==
    /\ pc = "tele_progress"
    /\ Await("tele_progress", [w EXCEPT !.userMsgs = @ + 1], loc,
             At("tele_upload"), Os, {w})

\* lines 493-502
TeleUpload ==
    /\ pc = "tele_upload"
    /\ Await("tele_upload", w, loc, At("tele_progdel"), Rpc, {w})

\* line 504
TeleProgressDelete ==
    /\ pc = "tele_progdel"
    /\ Await("tele_progdel", [w EXCEPT !.userMsgs = @ - 1], loc,
             At("tele_send"), Os, {w})

\* lines 506-531: send the uploaded file to the target.
TeleSend ==
    /\ pc = "tele_send"
    /\ Await("tele_send",
             [w EXCEPT !.sent = Append(@, Sent("send_file", Content(w.size),
                                               <<loc.caption, 0>>))],
             loc, At("tele_mirror"), Rpc, {w})

\* lines 533-541: send it to LOG_GROUP.
TeleMirror ==
    /\ pc = "tele_mirror"
    /\ Await("tele_mirror",
             [w EXCEPT !.mirrorTried = @ + 1, !.mirrored = @ + 1],
             loc, Return, Rpc, {[w EXCEPT !.mirrorTried = @ + 1]})

\* lines 543-545: report to LOG_GROUP, raise again.
TeleExcept ==
    /\ pc = "tele_except"
    /\ Await("tele_except", [w EXCEPT !.logErrs = @ + 1], loc,
             Propagate(exc), Os, {w})

TeleNext ==
    \/ TeleEditDelete
    \/ TeleProgress
    \/ TeleUpload
    \/ TeleProgressDelete
    \/ TeleSend
    \/ TeleMirror
    \/ TeleExcept

\* --------------------------------------------- handle_large_file_upload

\* lines 549-553
LargeEntry ==
    /\ pc = "hlu_entry"
    /\ Await("hlu_entry", w, loc,
             IF loc.pro_client THEN At("hlu_upload") ELSE Return, Os, {w})

\* lines 564-588: the pro client uploads the file to LOG_GROUP.
LargeUpload ==
    /\ pc = "hlu_upload"
    /\ Await("hlu_upload",
             [w EXCEPT !.mirrorTried = @ + 1, !.mirrored = @ + 1,
                       !.proUploads = @ + 1],
             loc, At("hlu_chk"), Rpc, {[w EXCEPT !.mirrorTried = @ + 1]})

\* lines 591-593: chk_user(sender, sender).
LargeCheck ==
    /\ pc = "hlu_chk"
    /\ \E answer \in {0, 1} :
          Await("hlu_chk", w, [loc EXCEPT !.free_check2 = answer],
                At("hlu_copy"), Os, {w})

\* An adapter that copies without the marker for every caller.
CopyOp_Unrestricted(free_check) == "copy_message"

\* lines 595-603: protect_content and the upsell button for a free user.
CopyOp(free_check) ==
    IF free_check = 1 THEN "copy_message_protected" ELSE "copy_message"

\* lines 595-603: copy from LOG_GROUP to the target, protected for a free user.
LargeCopy ==
    /\ pc = "hlu_copy"
    /\ Await("hlu_copy",
             [w EXCEPT !.sent = Append(@, Sent(CopyOp(loc.free_check2),
                                               Content(w.size), <<loc.caption, 0>>))],
             loc, At("hlu_finally"), Rpc, {w})

\* lines 605-607: report to LOG_GROUP; the exception ends here.
LargeExcept ==
    /\ pc = "hlu_except"
    /\ Await("hlu_except", [w EXCEPT !.logErrs = @ + 1], loc,
             Target("hlu_finally", "none", ctx), Os, {w})

\* lines 608-609
LargeFinally ==
    /\ pc = "hlu_finally"
    /\ Await("hlu_finally", StatusDeleted, loc,
             IF exc = "none" THEN Return ELSE Propagate(exc), Os, {DeleteFailed})

LargeNext ==
    \/ LargeEntry
    \/ LargeUpload
    \/ LargeCheck
    \/ LargeCopy
    \/ LargeExcept
    \/ LargeFinally

\* ----------------------------------------------- handle_message_download

\* The chat the link names.
LinkChannel == "chanA"

Channels == {LinkChannel}

LinkClasses == {"private", "bot", "story", "public", "invalid"}

IntId(c) == <<"int", c>>
StrId(c) == <<"str", c>>

\* lines 113-117: the stored channel ids, or the empty set when the read fails.
get_protected_channels(readOk) ==
    IF readOk THEN {IntId(c) : c \in w.locked} ELSE {}

\* lines 708-713: the chat identity of a t.me/c/ link is int('-100' + n),
\* that of a t.me/b/ link is the string parts[-2].
DerivedChatId(link) ==
    IF link = "bot" THEN StrId(LinkChannel) ELSE IntId(LinkChannel)

\* A link parser that never consults the protected set.
ProtectedHit_Never(chat_id, protected_channels) == FALSE

\* line 715
ProtectedHit(chat_id, protected_channels) == chat_id \in protected_channels

MsgKinds ==
    {"missing", "text", "webpage", "nomedia", "sticker", "voice", "video_note",
     "photo", "video", "audio", "document", "other"}

\* lines 160-177: get_media_info's media type.
MediaType(kind) ==
    IF kind \in {"document", "video", "photo", "audio", "voice", "video_note",
                  "sticker"}
    THEN kind ELSE "document"

FileSizes == {SIZE_LIMIT, SIZE_LIMIT + 1}

\* lines 160-177: the size the message reports; 1 where none is read.
SizesOf(kind) ==
    IF kind \in {"document", "video", "photo", "audio"} THEN FileSizes ELSE {1}

\* A selector without the photo carve-out.
IsPhoto_Never(media_type) == FALSE

\* line 663 and line 869
IsPhoto(media_type) == media_type = "photo"

\* line 672 and line 871
ExceedsLimit(file_size) == file_size > SIZE_LIMIT

\* A selector that splits only when both conditions hold.
UseSplit_Both(free_check, pro_client) == free_check = 1 /\ ~pro_client

\* line 677 and line 876
UseSplit(free_check, pro_client) == free_check = 1 \/ ~pro_client

Methods == {"Pyrogram", "Telethon"}

Edit(text) == [w EXCEPT !.status = text]

Deliver(op, data, caption) == [w EXCEPT !.sent = Append(@, Sent(op, data, caption))]

Mirror == [w EXCEPT !.mirrorTried = @ + 1, !.mirrored = @ + 1]

MirrorFailed == [w EXCEPT !.mirrorTried = @ + 1]

\* lines 618-624 with _parse_message_link, lines 706-740, up to its first await.
HmdStart ==
    /\ pc = "hmd_start"
    /\ \E readOk \in BOOLEAN :
          LET protected_channels == get_protected_channels(readOk)
              chat_id == DerivedChatId(cfg.link)
          IN  Sync("hmd_start", w,
                   [loc EXCEPT !.protected_channels = protected_channels,
                               !.chat_id = chat_id],
                   IF cfg.link \in {"private", "bot"}
                   THEN IF ProtectedHit(chat_id, protected_channels)
                        THEN At("pml_protected") ELSE At("hmd_fetch")
                   ELSE IF cfg.link = "story" THEN At("pml_story")
                   ELSE At("pml_public"))

\* lines 716-717 and 623-624
PmlProtected ==
    /\ pc = "pml_protected"
    /\ AwaitWhen(w.status # "deleted", "pml_protected", Edit("protected"),
                 [loc EXCEPT !.outcome = "Protected"], Return, Os, {w})

\* lines 631-648: fetch the message and tell its kind.
HmdFetch ==
    /\ pc = "hmd_fetch"
    /\ \E kind \in MsgKinds :
       \E size \in SizesOf(kind) :
          Await("hmd_fetch",
                [w EXCEPT !.fetched = @ + 1],
                [loc EXCEPT !.msg = kind, !.file_size = size,
                            !.media_type = MediaType(kind)],
                CASE kind = "missing" -> At("hmd_missing")
                  [] kind \in {"text", "webpage"} -> At("hsm_send")
                  [] kind = "nomedia" -> Return
                  [] kind \in {"sticker", "voice", "video_note"} -> At("hdm_send")
                  [] OTHER -> At("hmd_edit"),
                Rpc, {w})

\* lines 632-634
HmdMissing ==
    /\ pc = "hmd_missing"
    /\ Await("hmd_missing", StatusDeleted, loc, Return, Os,
             {DeleteFailed})

\* lines 744-745 and 750-751: _handle_special_messages sends the text.
SpecialSend ==
    /\ pc = "hsm_send"
    /\ Await("hsm_send", Deliver("send_message", <<>>, <<"", 0>>), loc,
             At("hsm_copy"), Rpc, {w})

\* lines 746 and 752
SpecialCopy ==
    /\ pc = "hsm_copy"
    /\ Await("hsm_copy", Mirror, loc, At("hsm_delete"), Rpc, {MirrorFailed})

\* lines 747-748 and 753-754
SpecialDelete ==
    /\ pc = "hsm_delete"
    /\ Await("hsm_delete", StatusDeleted, loc, Return, Os,
             {DeleteFailed})

\* lines 763-768: _handle_direct_media sends by file id.
DirectSend ==
    /\ pc = "hdm_send"
    /\ Await("hdm_send", Deliver("send_" \o loc.media_type, <<>>, <<"", 0>>),
             loc, At("hdm_copy"), Rpc, {w})

\* lines 770-771
DirectCopy ==
    /\ pc = "hdm_copy"
    /\ Await("hdm_copy", Mirror, loc, At("hdm_delete"), Rpc, {MirrorFailed})

\* lines 772-773: delete_messages(msg.chat.id, edit_id), in the source chat.
DirectDelete ==
    /\ pc = "hdm_delete"
    /\ Await("hdm_delete", [w EXCEPT !.srcDeletes = @ + 1], loc, Return, Rpc, {w})

\* line 651
HmdEdit ==
    /\ pc = "hmd_edit"
    /\ AwaitWhen(w.status # "deleted", "hmd_edit", Edit("downloading"),
                 [loc EXCEPT !.edit_msg = TRUE], At("hmd_download"), Os, {w})

Downloaded(size) ==
    [w EXCEPT !.files = @ \cup {"downloaded"}, !.size = size, !.downloads = @ + 1]

\* lines 653-656
HmdDownload ==
    /\ pc = "hmd_download"
    /\ Await("hmd_download", Downloaded(loc.file_size),
             [loc EXCEPT !.file_path = "downloaded", !.path_returned = TRUE], At("hmd_rename"), Rpc, {w})

\* line 288: os.rename(file_path, new_path)
Renamed == [w EXCEPT !.files = (@ \ {"downloaded"}) \cup {"renamed"}]

\* lines 663-691: the strategy for the downloaded file.
Strategy(media_type, file_size) ==
    CASE IsPhoto(media_type) -> "Photo"
      [] ExceedsLimit(file_size) -> "Check"
      [] OTHER -> "Direct"

\* lines 659-672 and 687-691: caption, rename, then the strategy.
HmdRename ==
    /\ pc = "hmd_rename"
    /\ LET strategy == Strategy(loc.media_type, loc.file_size) IN
       \E caption \in {"", "cap"} :
       \E upload_method \in IF strategy = "Direct" THEN Methods ELSE {"unread"} :
       \E gf \in IF upload_method = "Telethon" THEN BOOLEAN ELSE {FALSE} :
          Await("hmd_rename", Renamed,
                [loc EXCEPT !.file_path = "renamed", !.caption = caption,
                            !.upload_method = upload_method, !.gf = gf,
                            !.strategy = IF strategy = "Check" THEN @ ELSE strategy],
                CASE strategy = "Photo" -> At("hmd_photo_send")
                  [] strategy = "Check" -> At("hmd_chk")
                  [] upload_method = "Telethon" /\ gf -> At("tele_editdel")
                  [] OTHER -> At("pyro_entry"),
                Os, {w})

\* line 664
HmdPhotoSend ==
    /\ pc = "hmd_photo_send"
    /\ Await("hmd_photo_send",
             Deliver("send_photo", Content(w.size), <<loc.caption, 0>>), loc,
             At("hmd_photo_copy"), Rpc, {w})

\* line 665
HmdPhotoCopy ==
    /\ pc = "hmd_photo_copy"
    /\ Await("hmd_photo_copy", Mirror, loc, At("hmd_photo_delete"), Rpc,
             {MirrorFailed})

\* lines 666-667
HmdPhotoDelete ==
    /\ pc = "hmd_photo_delete"
    /\ Await("hmd_photo_delete", StatusDeleted, loc, Return, Os,
             {DeleteFailed})

\* lines 673-685: chk_user(chat_id, sender), then Split or Elevated.  Where
\* chk_user is not defined free_check stays 0, as when it answers 0.
HmdCheck ==
    /\ pc = "hmd_chk"
    /\ \E free_check \in {0, 1}, pro_client \in BOOLEAN :
          LET split == UseSplit(free_check, pro_client) IN
          Await("hmd_chk", w,
                [loc EXCEPT !.free_check = free_check, !.pro_client = pro_client,
                            !.strategy = IF split THEN "Split" ELSE "Elevated"],
                IF split THEN At("hmd_split_delete") ELSE At("hlu_entry"),
                Os, {w})

\* lines 679-680
HmdSplitDelete ==
    /\ pc = "hmd_split_delete"
    /\ Await("hmd_split_delete", StatusDeleted, loc, At("slf_entry"), Os,
             {DeleteFailed})

\* lines 693-694
HmdExceptAccess ==
    /\ pc = "hmd_except_access"
    /\ AwaitWhen(w.status # "deleted", "hmd_except_access", Edit("access_denied"),
                 loc, Target("hmd_finally", "none", "hmd"), Os, {w})

\* lines 695-697
HmdExcept ==
    /\ pc = "hmd_except"
    /\ Await("hmd_except", [w EXCEPT !.logErrs = @ + 1], loc,
             Target("hmd_finally", "none", "hmd"), Os, {w})

\* lines 256-262: _cleanup_file removes the file when it exists.
Cleanup(file_path) == [w EXCEPT !.files = @ \ {file_path}]

\* lines 256-262: `await self._cleanup_file(file_path)` in a finally block
\* at position `here`.  The file is removed; or os.remove raises an
\* Exception, which is printed, and the file stays; or the task is cancelled
\* while the removal runs in its thread.  next: where the code goes on;
\* cancelled: where a cancellation goes.
CleanupFile(here, file_path, okLoc, next, cancelled) ==
    /\ pc = here
    /\ loc' = okLoc
    /\ \/ /\ w' = Cleanup(file_path)
          /\ Goto(next)
       \/ /\ file_path \in w.files
          /\ w' = [w EXCEPT !.raised = @ + 1]
          /\ Goto(next)
       \/ /\ file_path \in w.files
          /\ \E fw \in {w, Cleanup(file_path)} : w' = [fw EXCEPT !.cancelled = TRUE]
          /\ Goto(cancelled)
    /\ UNCHANGED cfg

\* lines 698-702
HmdFinally ==
    CleanupFile("hmd_finally", loc.file_path, loc, Target("done", exc, "hmd"),
                Target("done", "Cancelled", "hmd"))

HmdNext ==
    \/ HmdStart
    \/ PmlProtected
    \/ HmdFetch
    \/ HmdMissing
    \/ SpecialSend
    \/ SpecialCopy
    \/ SpecialDelete
    \/ DirectSend
    \/ DirectCopy
    \/ DirectDelete
    \/ HmdEdit
    \/ HmdDownload
    \/ HmdRename
    \/ HmdPhotoSend
    \/ HmdPhotoCopy
    \/ HmdPhotoDelete
    \/ HmdCheck
    \/ HmdSplitDelete
    \/ HmdExceptAccess
    \/ HmdExcept
    \/ HmdFinally

\* -------------------------------------------------- _download_user_stories

\* "Rpc" is an RPCError that is none of the access errors: with "Access" it
\* is what the except clause of line 805 catches.  A call on the requester's
\* own chat raises StatusErrs, a call of the user client StoryErrs.
StatusErrs == Os \cup {"Rpc"}

StoryErrs == Rpc \cup {"Rpc"}

\* line 787 and lines 794-799: what the story holds.
StoryMedia == {"none", "video", "document", "photo", "other"}

\* lines 721-726: the status edit, then the login check.
PmlStory ==
    /\ pc = "pml_story"
    /\ \E gf \in BOOLEAN :
          AwaitWhen(w.status # "deleted", "pml_story", Edit("story_link"),
                    [loc EXCEPT !.gf = gf],
                    IF gf THEN At("dus_edit") ELSE At("pml_story_login"),
                    Os, {w})

\* lines 725-726
PmlStoryLogin ==
    /\ pc = "pml_story_login"
    /\ AwaitWhen(w.status # "deleted", "pml_story_login", Edit("login_required"),
                 loc, Return, Os, {w})

\* line 784
StoryEdit ==
    /\ pc = "dus_edit"
    /\ AwaitWhen(w.status # "deleted", "dus_edit", Edit("story_downloading"),
                 [loc EXCEPT !.edit_msg = TRUE], At("dus_get"), StatusErrs, {w})

\* lines 785-787
StoryGet ==
    /\ pc = "dus_get"
    /\ \E media \in StoryMedia :
          Await("dus_get", [w EXCEPT !.fetched = @ + 1],
                [loc EXCEPT !.msg = media],
                IF media = "none" THEN At("dus_nomedia") ELSE At("dus_download"),
                StoryErrs, {w})

\* lines 788-789
StoryNoMedia ==
    /\ pc = "dus_nomedia"
    /\ AwaitWhen(w.status # "deleted", "dus_nomedia", Edit("no_story"), loc,
                 Return, StatusErrs, {w})

\* line 791: the story is downloaded to a file of its own.
StoryDownload ==
    /\ pc = "dus_download"
    /\ Await("dus_download",
             [w EXCEPT !.files = @ \cup {"story"}, !.downloads = @ + 1],
             [loc EXCEPT !.path_returned = TRUE], At("dus_uploading"),
             StoryErrs, {w})

\* line 792
StoryUploading ==
    /\ pc = "dus_uploading"
    /\ AwaitWhen(w.status # "deleted", "dus_uploading", Edit("story_uploading"),
                 loc,
                 IF loc.msg \in {"video", "document", "photo"}
                 THEN At("dus_send") ELSE At("dus_done"),
                 StatusErrs, {w})

\* lines 794-799: the story goes to the requester.
StorySend ==
    /\ pc = "dus_send"
    /\ Await("dus_send", [w EXCEPT !.storySends = @ + 1], loc, At("dus_done"),
             StoryErrs, {w})

\* lines 801-803: the file is removed, then the status is edited.
StoryDone ==
    /\ pc = "dus_done"
    /\ AwaitWhen(w.status # "deleted", "dus_done",
                 [Cleanup("story") EXCEPT !.status = "story_done"],
                 [loc EXCEPT !.outcome = "Story"], Return, StatusErrs,
                 {Cleanup("story")})

\* lines 805-806
StoryExcept ==
    /\ pc = "dus_except"
    /\ AwaitWhen(w.status # "deleted", "dus_except",
                 [w EXCEPT !.status = "error", !.notices = @ + 1], loc, Return,
                 Os, {w})

StoryNext ==
    \/ PmlStory
    \/ PmlStoryLogin
    \/ StoryEdit
    \/ StoryGet
    \/ StoryNoMedia
    \/ StoryDownload
    \/ StoryUploading
    \/ StorySend
    \/ StoryDone
    \/ StoryExcept

\* ------------------------------------------------- _copy_public_message

\* lines 734-739: the status edit, then the call of _copy_public_message.
\* Text that is no link has no "t.me/" to split at (line 737) or no number
\* at its end (line 738): an IndexError or a ValueError is raised.
PmlPublic ==
    /\ pc = "pml_public"
    /\ AwaitWhen(w.status # "deleted", "pml_public",
                 IF cfg.link = "invalid"
                 THEN [Edit("public_link") EXCEPT !.raised = @ + 1]
                 ELSE Edit("public_link"),
                 loc,
                 IF cfg.link = "invalid"
                 THEN HmdHandler("Error")
                 ELSE Target("cpm_fetch", "none", "cpm"),
                 Os, {w})

\* lines 820-838: what the direct copy does with the message the primary
\* client fetched.
DirectBranch(kind) ==
    CASE kind = "photo" -> "cpm_photo"
      [] kind = "text" -> "cpm_text"
      [] OTHER -> "cpm_fb"

\* lines 816-818: the primary client fetches the message; a message it
\* cannot read comes back empty.
PublicFetch ==
    /\ pc = "cpm_fetch"
    /\ \E kind \in MsgKinds :
       \E size \in SizesOf(kind) :
          Await("cpm_fetch",
                [w EXCEPT !.fetched = @ + 1, !.primaryTried = @ + 1],
                [loc EXCEPT !.msg = kind, !.file_size = size],
                At(DirectBranch(kind)), Rpc,
                {[w EXCEPT !.primaryTried = @ + 1, !.primaryRaised = TRUE]})

\* line 823
PublicPhoto ==
    /\ pc = "cpm_photo"
    /\ Await("cpm_photo",
             [Deliver("send_photo", <<>>, <<loc.caption, 0>>)
                 EXCEPT !.directSent = @ + 1],
             loc, At("cpm_copy"), Rpc, {w})

\* line 835
PublicText ==
    /\ pc = "cpm_text"
    /\ Await("cpm_text",
             [Deliver("copy_message", <<>>, <<"", 0>>) EXCEPT !.directSent = @ + 1],
             loc, At("cpm_copy"), Rpc, {w})

\* lines 830 and 836
PublicCopy ==
    /\ pc = "cpm_copy"
    /\ Await("cpm_copy", Mirror, loc, At("cpm_delete"), Rpc, {MirrorFailed})

\* A direct copy without its return: the code runs on into the fallback.
AfterDirectCopy_FallsThrough == Target("cpm_fb", exc, ctx)

\* lines 832 and 838: the direct copy is done.
AfterDirectCopy == Return

\* lines 831-832 and 837-838
PublicDelete ==
    /\ pc = "cpm_delete"
    /\ Await("cpm_delete", StatusDeleted, loc, AfterDirectCopy, Os,
             {DeleteFailed})

\* line 841: `if userbot`
FallbackCheck ==
    /\ pc = "cpm_fb"
    /\ \E gf \in BOOLEAN :
          Sync("cpm_fb", w, [loc EXCEPT !.gf = gf],
               IF gf THEN At("cpm_fb_edit") ELSE Return)

\* line 842
FallbackEdit ==
    /\ pc = "cpm_fb_edit"
    /\ AwaitWhen(w.status # "deleted", "cpm_fb_edit", Edit("alternative"),
                 [loc EXCEPT !.edit_msg = TRUE], At("cpm_join"), Os, {w})

\* lines 843-846: join_chat; `except: pass` takes whatever it raises.
FallbackJoin ==
    /\ pc = "cpm_join"
    /\ \E cancel \in BOOLEAN :
          w' = [w EXCEPT !.cancelled = @ \/ cancel, !.secondaryUsed = TRUE]
    /\ loc' = loc
    /\ Goto(At("cpm_getchat"))
    /\ UNCHANGED cfg

\* line 848
FallbackGetChat ==
    /\ pc = "cpm_getchat"
    /\ Await("cpm_getchat", w, loc, At("cpm_fb_fetch"), Rpc, {w})

\* The message is the one the primary client was asked for.
SecondaryKinds(kind) == IF kind = "missing" THEN MsgKinds ELSE {kind, "missing"}

\* lines 849-867: the secondary session fetches the message.
FallbackFetch ==
    /\ pc = "cpm_fb_fetch"
    /\ \E kind \in SecondaryKinds(loc.msg) :
       \E size \in IF kind = loc.msg THEN {loc.file_size} ELSE SizesOf(kind) :
          Await("cpm_fb_fetch",
                [w EXCEPT !.fetched = @ + 1, !.fallbacks = @ + 1],
                [loc EXCEPT !.msg = kind, !.file_size = size,
                            !.media_type = MediaType(kind)],
                CASE kind = "missing" -> At("cpm_fb_missing")
                  [] kind \in {"text", "webpage"} -> At("cpm_fb_text")
                  [] OTHER -> At("cpm_download"),
                Rpc, {w})

\* lines 851-853
FallbackMissing ==
    /\ pc = "cpm_fb_missing"
    /\ AwaitWhen(w.status # "deleted", "cpm_fb_missing", Edit("not_found"), loc,
                 Return, Os, {w})

\* lines 855-856
FallbackText ==
    /\ pc = "cpm_fb_text"
    /\ Await("cpm_fb_text", Deliver("send_message", <<>>, <<"", 0>>), loc,
             At("cpm_fb_textdel"), Rpc, {w})

\* lines 857-858
FallbackTextDelete ==
    /\ pc = "cpm_fb_textdel"
    /\ Await("cpm_fb_textdel", StatusDeleted, loc, Return, Os,
             {DeleteFailed})

\* lines 861-864: download_media raises for a message without media.
FallbackDownload ==
    /\ pc = "cpm_download"
    /\ AwaitWhen(loc.msg # "nomedia", "cpm_download", Downloaded(loc.file_size),
                 [loc EXCEPT !.file_path = "downloaded", !.path_returned = TRUE], At("cpm_rename"),
                 Rpc, {w})

\* lines 861-888: caption, rename, then the strategy.
FallbackRename ==
    /\ pc = "cpm_rename"
    /\ LET strategy == Strategy(loc.media_type, loc.file_size) IN
       \E caption \in {"", "cap"} :
       \E upload_method \in IF strategy = "Direct" THEN Methods ELSE {"unread"} :
          Await("cpm_rename", Renamed,
                [loc EXCEPT !.file_path = "renamed", !.caption = caption,
                            !.upload_method = upload_method,
                            !.strategy = IF strategy = "Check" THEN @ ELSE strategy],
                CASE strategy = "Photo" -> At("cpm_fb_photo")
                  [] strategy = "Check" -> At("cpm_chk")
                  [] upload_method = "Telethon" -> At("tele_editdel")
                  [] OTHER -> At("pyro_entry"),
                Os, {w})

\* lines 869-870: the photo is sent; the try block ends there.
FallbackPhoto ==
    /\ pc = "cpm_fb_photo"
    /\ Await("cpm_fb_photo",
             Deliver("send_photo", Content(w.size), <<loc.caption, 0>>), loc,
             Return, Rpc, {w})

\* lines 871-882: chk_user(chat_id, sender), then Split or Elevated.
FallbackCheckUser ==
    /\ pc = "cpm_chk"
    /\ \E free_check \in {0, 1}, pro_client \in BOOLEAN :
          LET split == UseSplit(free_check, pro_client) IN
          Await("cpm_chk", w,
                [loc EXCEPT !.free_check = free_check, !.pro_client = pro_client,
                            !.strategy = IF split THEN "Split" ELSE "Elevated"],
                IF split THEN At("cpm_split_delete") ELSE At("hlu_entry"),
                Os, {w})

\* lines 877-878
FallbackSplitDelete ==
    /\ pc = "cpm_split_delete"
    /\ Await("cpm_split_delete", StatusDeleted, loc, At("slf_entry"), Os,
             {DeleteFailed})

\* lines 892-894, then lines 740 and 623-624: _parse_message_link returns
\* (None, None) and handle_message_download returns.
PublicFinally ==
    CleanupFile("cpm_finally", loc.file_path, [loc EXCEPT !.file_path = "none"],
                Target("hmd_finally", exc, "hmd"), HmdHandler("Cancelled"))

PublicNext ==
    \/ PmlPublic
    \/ PublicFetch
    \/ PublicPhoto
    \/ PublicText
    \/ PublicCopy
    \/ PublicDelete
    \/ FallbackCheck
    \/ FallbackEdit
    \/ FallbackJoin
    \/ FallbackGetChat
    \/ FallbackFetch
    \/ FallbackMissing
    \/ FallbackText
    \/ FallbackTextDelete
    \/ FallbackDownload
    \/ FallbackRename
    \/ FallbackPhoto
    \/ FallbackCheckUser
    \/ FallbackSplitDelete
    \/ PublicFinally

\* ------------------------------------------------------------------- Init

Locals ==
    [file_path |-> "none", edit_msg |-> FALSE, protected_channels |-> {},
     chat_id |-> <<>>, msg |-> "none", file_size |-> 0, media_type |-> "none",
     caption |-> "", upload_method |-> "none", file_type |-> "none",
     free_check |-> 0, free_check2 |-> 0, strategy |-> "none",
     pro_client |-> FALSE, gf |-> FALSE,
     outcome |-> "none", path_returned |-> FALSE,
     part_number |-> 0, pos |-> 0, chunk |-> <<>>, start_msg |-> FALSE,
     part_caption |-> <<>>]

World ==
    [locked |-> {}, files |-> {}, size |-> 0, parts |-> {}, status |-> "present",
     sent |-> <<>>, mirrorTried |-> 0, mirrored |-> 0, fetched |-> 0,
     downloads |-> 0, proUploads |-> 0, userMsgs |-> 0, notices |-> 0,
     primaryTried |-> 0, directSent |-> 0, secondaryUsed |-> FALSE,
     primaryRaised |-> FALSE, fallbacks |-> 0, raised |-> 0,
     logErrs |-> 0, srcDeletes |-> 0, cancelled |-> FALSE,
     failedPart |-> -1, delTried |-> FALSE, storySends |-> 0,
     written |-> <<>>, uploaded |-> <<>>]

\* get_msg(userbot, sender, edit_id, msg_link, i, message): the status message
\* edit_id exists, nothing has been downloaded.
InitTransfer ==
    /\ pc = "hmd_start"
    /\ exc = "none"
    /\ ctx = "hmd"
    /\ \E link \in LinkClasses : cfg = [entry |-> "get_msg", link |-> link]
    /\ loc = Locals
    /\ \E locked \in SUBSET Channels : w = [World EXCEPT !.locked = locked]

\* A direct call split_large_file(file_path, app, sender, target, caption).
InitSplit ==
    /\ pc = "slf_entry"
    /\ exc = "none"
    /\ ctx = "caller"
    /\ cfg = [entry |-> "split_large_file", link |-> "none"]
    /\ \E size \in 0..MaxFileSize, present \in BOOLEAN, caption \in {"", "cap"} :
          /\ loc = [Locals EXCEPT !.file_path = "downloaded", !.caption = caption]
          /\ w = [World EXCEPT !.size = size,
                               !.files = IF present THEN {"downloaded"} ELSE {}]

Init == InitTransfer \/ InitSplit

Next ==
    \/ HmdNext
    \/ StoryNext
    \/ PublicNext
    \/ SplitNext
    \/ PyroNext
    \/ TeleNext
    \/ LargeNext

Spec == Init /\ [][Next]_vars

\* ------------------------------------------------------------ properties

SplitPcs ==
    {"slf_entry", "slf_read", "slf_write", "slf_status", "slf_upload",
     "slf_copy", "slf_editdel", "slf_part_finally", "slf_finally"}

LargePcs ==
    {"hlu_entry", "hlu_upload", "hlu_chk", "hlu_copy", "hlu_except",
     "hlu_finally"}

AdapterPcs ==
    {"pyro_entry", "pyro_thumb", "pyro_send", "pyro_copy", "pyro_except",
     "pyro_finally", "tele_editdel", "tele_progress", "tele_upload",
     "tele_progdel", "tele_send", "tele_mirror", "tele_except"}

\* The upload strategy the code is executing.
Running ==
    CASE pc \in SplitPcs \cup {"hmd_split_delete", "cpm_split_delete"} -> "Split"
      [] pc \in LargePcs -> "Elevated"
      [] pc \in AdapterPcs -> "Direct"
      [] OTHER -> "none"

\* C1: once download_media has returned a local path, no file of the transfer
\* (under its original or its renamed name) exists when the transfer exits,
\* on every exit path, cancellation included.
C1_TempFileRemovedOnExit ==
    (pc = "done" /\ cfg.entry = "get_msg" /\ loc.path_returned) => w.files = {}

\* C2: every delivery to the target is accompanied by a copy to LOG_GROUP: a
\* transfer in which no call failed has mirrored as many times as it
\* delivered.
C2_EveryDeliveryMirrored ==
    (pc = "done" /\ ~w.cancelled /\ w.raised = 0) => w.mirrored = Len(w.sent)

\* C3: for non-photo downloaded media the strategy is Direct when the size
\* does not exceed SIZE_LIMIT; above it, Elevated exactly when the pro client
\* is configured and the entitlement check reports the caller entitled
\* (free_check = 0), and Split otherwise.  The code runs the strategy it
\* selected and no other.
C3_StrategyBySize ==
    cfg.entry = "get_msg" =>
        LET expected ==
                IF loc.file_size <= SIZE_LIMIT THEN "Direct"
                ELSE IF loc.pro_client /\ loc.free_check = 0 THEN "Elevated"
                ELSE "Split"
        IN  /\ Running # "none" => loc.strategy = Running
            /\ loc.strategy \in {"Direct", "Split", "Elevated"} =>
                  loc.media_type # "photo" /\ loc.strategy = expected
            /\ (loc.file_path = "renamed" /\ loc.media_type # "photo"
                   /\ loc.file_size <= SIZE_LIMIT) => loc.strategy = "Direct"

C3_ElevatedChosen ==
    /\ pc = "hlu_upload"
    /\ loc.strategy = "Elevated"
    /\ loc.file_size > SIZE_LIMIT
    /\ loc.pro_client
    /\ loc.free_check = 0

\* C4: a photo is delivered by one send_photo, never by Split, never by the
\* Elevated adapter and never by an upload adapter, whatever its size, the
\* entitlement result and the pro client's configuration.
C4_PhotoAlwaysDirect ==
    (cfg.entry = "get_msg" /\ loc.msg = "photo") =>
        /\ Running = "none"
        /\ loc.strategy \in {"none", "Photo"}
        /\ Len(w.sent) <= 1
        /\ \A i \in DOMAIN w.sent : w.sent[i].op = "send_photo"

C4_LargePhotoSent ==
    /\ pc = "done"
    /\ loc.msg = "photo"
    /\ loc.file_size > SIZE_LIMIT
    /\ loc.strategy = "Photo"
    /\ Len(w.sent) = 1
    /\ w.sent[1].op = "send_photo"
    /\ w.downloads = 1

\* C5: a fetched message that is plain text, a link preview, a sticker, a
\* voice note or a video note is never downloaded and never reaches the
\* transform, strategy or upload steps, also when its direct send or its
\* mirror copy fails.
C5_ShortCircuitNeverDownloads ==
    (cfg.link \in {"private", "bot"}
        /\ loc.msg \in {"text", "webpage", "sticker", "voice", "video_note"}) =>
        /\ w.downloads = 0
        /\ pc \notin {"hmd_edit", "hmd_download", "hmd_rename"}
        /\ Running = "none"

\* C6: a public link the primary client cannot fetch directly (its fetch
\* raises, or yields nothing deliverable) while the secondary session can
\* fetch it, and nothing else fails: the transfer ends with exactly one
\* delivery and the fallback executed exactly once.
C6_FallbackDeliversOnce ==
    (/\ pc = "done"
     /\ cfg.link = "public"
     /\ ~w.cancelled
     /\ \/ w.primaryRaised /\ w.raised = 1
        \/ /\ w.primaryTried = 1
           /\ w.directSent = 0
           /\ w.raised = 0
           /\ loc.gf
           /\ loc.msg \notin {"none", "missing", "nomedia"}
           /\ loc.strategy # "Split")
    => (Len(w.sent) = 1 /\ w.fallbacks = 1)

\* C7: the secondary session is used for a public link only after the
\* primary client has tried the direct resolution and has delivered nothing.
C7_FallbackOnlyAfterDirectFailed ==
    (w.secondaryUsed \/ w.fallbacks > 0 \/ pc \in {"cpm_fb_edit", "cpm_join"}) =>
        /\ cfg.link = "public"
        /\ w.primaryTried = 1
        /\ w.directSent = 0

C7_FallbackDelivered ==
    /\ pc = "done"
    /\ w.secondaryUsed
    /\ w.primaryTried = 1
    /\ w.fallbacks = 1
    /\ Len(w.sent) = 1

\* C8: a t.me/c/ link whose derived chat identity is in the set of protected
\* channels ends before any fetch: no get_messages, no download, no upload;
\* when nothing fails the status message carries the Protected outcome.
C8_ProtectedEndsBeforeFetch ==
    (cfg.link = "private" /\ loc.chat_id \in loc.protected_channels) =>
        /\ w.fetched = 0
        /\ w.downloads = 0
        /\ w.sent = <<>>
        /\ w.mirrorTried = 0
        /\ pc \in {"pml_protected", "hmd_except", "hmd_finally", "done"}
        /\ (pc = "done" /\ w.raised = 0 /\ ~w.cancelled) =>
              (w.status = "protected" /\ loc.outcome = "Protected")

C8_ProtectedReported ==
    /\ pc = "done"
    /\ cfg.link = "private"
    /\ loc.chat_id \in loc.protected_channels
    /\ loc.outcome = "Protected"
    /\ w.status = "protected"

\* C9: when the loop of split_large_file ran to its end without a failure,
\* exactly ceil(F / PART_SIZE) parts were uploaded, and their bytes
\* concatenated in upload order are the bytes of the source.
C9_PartsReassemble ==
    (pc = "slf_finally" /\ exc = "none") =>
        /\ Len(w.sent) = CeilDiv(w.size, PART_SIZE)
        /\ Concat([i \in DOMAIN w.sent |-> w.sent[i].data]) = Content(w.size)
        /\ \A i \in DOMAIN w.sent : w.sent[i].op = "send_document"

C9_ShortLastPart ==
    /\ pc = "slf_finally"
    /\ exc = "none"
    /\ w.size = PART_SIZE + 1
    /\ Len(w.sent) = 2
    /\ Len(w.sent[2].data) = 1

\* C10: when split_large_file has exited, by returning or by raising, no part
\* file it created exists on disk.
C10_NoPartFileLeft == (pc = "done" /\ ~w.cancelled) => w.parts = {}

\* C11: when split_large_file has exited, on any path (all parts uploaded, a
\* part failed, the start message could not be sent or deleted, the source
\* was missing), the source file does not exist on disk.
C11_SourceRemovedOnExit ==
    (cfg.entry = "split_large_file" /\ pc = "done" /\ ~w.cancelled) =>
        loc.file_path \notin w.files

\* C12: when the upload of part k fails, no part with a greater index is
\* written or uploaded, and the parts 0..k-1 delivered before stay delivered:
\* the target holds exactly the first k parts of the source.
C12_FailedPartEndsSplit ==
    w.failedPart >= 0 =>
        /\ Len(w.sent) = w.failedPart
        /\ Concat([i \in DOMAIN w.sent |-> w.sent[i].data])
              = SubSeq(Content(w.size), 1, w.failedPart * PART_SIZE)
        /\ \A p \in w.parts : Number(p.name) <= w.failedPart
        /\ pc \notin {"slf_read", "slf_write", "slf_status", "slf_upload",
                      "slf_copy", "slf_editdel"}

C12_SecondPartFailed ==
    /\ pc = "done"
    /\ w.failedPart = 1
    /\ Len(w.sent) = 1
    /\ w.size > 2 * PART_SIZE
    /\ ~w.cancelled

\* C13: a transfer that failed (a call raised and nothing was delivered) has
\* tried to delete its status message by the time it ends.
C13_StatusDeleteTriedOnFailure ==
    (pc = "done" /\ cfg.entry = "get_msg" /\ w.raised > 0 /\ w.sent = <<>>
        /\ ~w.cancelled) => w.delTried

\* C14: a transfer that failed on one raised call (access denied, a backend
\* or disk failure, an unexpected exception) has both shown the requesting
\* user a failure message and recorded the error to LOG_GROUP.
C14_FailureReportedAndLogged ==
    (pc = "done" /\ cfg.entry = "get_msg" /\ w.raised = 1 /\ w.sent = <<>>
        /\ ~w.cancelled) =>
        (w.status = "access_denied" /\ w.logErrs >= 1)

\* C15: a resolution failure (Protected; NotFound for a service or empty
\* message; InvalidLink for text that is no recognised link) ends the
\* transfer with a short message shown to the requesting user and with
\* nothing sent to LOG_GROUP.
C15_ResolutionFailureShownNotLogged ==
    (/\ pc = "done"
     /\ ~w.cancelled
     /\ \/ /\ cfg.link = "private"
           /\ loc.chat_id \in loc.protected_channels
           /\ w.raised = 0
        \/ /\ cfg.link \in {"private", "bot"}
           /\ loc.msg = "missing"
           /\ w.raised = 0
        \/ /\ cfg.link = "invalid"
           /\ w.raised = 1)
    => /\ w.status \in {"protected", "not_found", "invalid_link"}
       /\ w.logErrs = 0
       /\ w.mirrorTried = 0

\* C16: when an upload through the Primary, Alternate or Elevated adapter has
\* failed, the adapter's handler sends an error record to LOG_GROUP (or fails
\* trying) and leaves with the error in flight: to its own finally, or to
\* where its caller handles exceptions.
C16_AdapterLogsThenPropagates ==
    [][(pc \in {"pyro_except", "tele_except", "hlu_except"} /\ ~w'.cancelled) =>
          /\ IF pc = "tele_except"
             THEN Target(pc', exc', ctx') \in {Propagate(k) : k \in Rpc}
             ELSE exc' # "none"
          /\ w'.logErrs = w.logErrs + 1 \/ w'.raised = w.raised + 1]_vars

\* C17: in the Elevated adapter the upload is the same for every caller and
\* comes first; then exactly one copy goes to the target: unrestricted for an
\* entitled caller, with protect_content and the upsell button for a caller
\* the check reports as free.
C17_ElevatedCopyByEntitlement ==
    loc.strategy = "Elevated" =>
        /\ Len(w.sent) <= 1
        /\ Len(w.sent) = 1 => (w.proUploads = 1 /\ w.sent[1].data = Content(w.size))
        /\ pc \in {"hlu_chk", "hlu_copy"} => (w.proUploads = 1 /\ w.sent = <<>>)
        /\ (pc = "hlu_finally" /\ exc = "none" /\ w.raised = 0) =>
              /\ Len(w.sent) = 1
              /\ w.sent[1].op = IF loc.free_check2 = 1
                                THEN "copy_message_protected"
                                ELSE "copy_message"

C17_RestrictedCopyMade ==
    /\ pc = "done"
    /\ loc.strategy = "Elevated"
    /\ loc.free_check2 = 1
    /\ w.proUploads = 1
    /\ Len(w.sent) = 1
    /\ w.sent[1].op = "copy_message_protected"

\* ------------------------------------- concurrent transfers: file names
\*
\* Two transfers run at the same time, each through the steps of
\* handle_message_download that touch the disk: download_media under the name
\* get_media_info gave, process_filename, the upload of the file, and the
\* cleanup of the finally.  Here pc, exc and loc are functions of the
\* transfer, and w.disk maps every existing path to its content.

Transfers == {1, 2}

Users == {"u1", "u2"}

RenameTags == {"Team SPY", "mine"}

\* What a message carries: its kind and, for a document or a video, the file
\* name its sender gave it ("" when there is none).
NamedMsgs ==
    {[kind |-> "photo", file_name |-> <<>>],
     [kind |-> "document", file_name |-> <<>>],
     [kind |-> "document", file_name |-> <<"a", "pdf">>],
     [kind |-> "video", file_name |-> <<"a", "mkv">>]}

\* lines 160-177: the file name get_media_info returns, as <<stem, suffix>>.
FileName(msg) ==
    CASE msg.kind = "document" ->
            IF msg.file_name # <<>> THEN msg.file_name ELSE <<"document", "">>
      [] msg.kind = "video" ->
            IF msg.file_name # <<>> THEN msg.file_name ELSE <<"video", "mp4">>
      [] msg.kind = "photo" -> <<"photo", "jpg">>
      [] msg.kind = "audio" ->
            IF msg.file_name # <<>> THEN msg.file_name ELSE <<"audio", "mp3">>
      [] OTHER -> <<"unknown", "">>

\* lines 46-49: the video extensions that occur here.
VIDEO_EXTS == {"mp4", "mkv"}

\* lines 264-289: the path process_filename renames to, for a user without
\* delete words and replacement words: "<stem> <tag>.<ext>" in
\* the same directory, a video extension normalised to mp4.
RenamedPath(file_path, rename_tag) ==
    [stem |-> file_path.stem, tag |-> rename_tag,
     ext |-> IF file_path.ext \in VIDEO_EXTS THEN "mp4" ELSE file_path.ext]

\* file_path = None
NoPath == [stem |-> "", tag |-> "", ext |-> ""]

\* line 654: the path download_media returns for file_name=filename.
DownloadPath(filename) == [stem |-> filename[1], tag |-> "", ext |-> filename[2]]

Put(disk, path, data) ==
    [q \in DOMAIN disk \cup {path} |-> IF q = path THEN data ELSE disk[q]]

Drop(disk, path) == [q \in DOMAIN disk \ {path} |-> disk[q]]

\* lines 653-656: download_media writes the message's bytes under the name
\* it was given, over whatever file has that name.
NamesDownload(t) ==
    /\ pc[t] = "download"
    /\ LET file_path == DownloadPath(FileName(loc[t].msg)) IN
       /\ w' = [w EXCEPT !.disk = Put(@, file_path, t)]
       /\ loc' = [loc EXCEPT ![t].file_path = file_path]
    /\ pc' = [pc EXCEPT ![t] = "rename"]
    /\ UNCHANGED <<exc, ctx, cfg>>

\* lines 660 and 288: os.rename(file_path, new_path) replaces an existing
\* new_path; it raises when file_path is no longer there.
NamesRename(t) ==
    /\ pc[t] = "rename"
    /\ LET old == loc[t].file_path
           new == RenamedPath(old, cfg.rename_tag[loc[t].sender])
       IN  IF old \in DOMAIN w.disk
           THEN /\ w' = [w EXCEPT !.disk = Put(Drop(@, old), new, w.disk[old])]
                /\ loc' = [loc EXCEPT ![t].file_path = new]
                /\ pc' = [pc EXCEPT ![t] = "upload"]
                /\ exc' = exc
           ELSE /\ pc' = [pc EXCEPT ![t] = "finally"]
                /\ exc' = [exc EXCEPT ![t] = "Error"]
                /\ UNCHANGED <<w, loc>>
    /\ UNCHANGED <<ctx, cfg>>

\* lines 662-691: the upload reads the file at file_path and delivers what it
\* finds there; it raises when the file is gone.
NamesUpload(t) ==
    /\ pc[t] = "upload"
    /\ IF loc[t].file_path \in DOMAIN w.disk
       THEN /\ loc' = [loc EXCEPT ![t].delivered = w.disk[loc[t].file_path]]
            /\ exc' = exc
       ELSE /\ exc' = [exc EXCEPT ![t] = "Error"]
            /\ loc' = loc
    /\ pc' = [pc EXCEPT ![t] = "finally"]
    /\ UNCHANGED <<w, ctx, cfg>>

\* lines 698-702 and 256-262: remove file_path when it exists.
NamesFinally(t) ==
    /\ pc[t] = "finally"
    /\ w' = [w EXCEPT !.disk = Drop(@, loc[t].file_path)]
    /\ pc' = [pc EXCEPT ![t] = "done"]
    /\ UNCHANGED <<exc, ctx, cfg, loc>>

NamesInit ==
    /\ pc = [t \in Transfers |-> "download"]
    /\ exc = [t \in Transfers |-> "none"]
    /\ ctx = "hmd"
    /\ \E rename_tag \in [Users -> RenameTags] :
          cfg = [entry |-> "concurrent", rename_tag |-> rename_tag]
    /\ \E msg \in [Transfers -> NamedMsgs], sender \in [Transfers -> Users] :
          loc = [t \in Transfers |->
                    [msg |-> msg[t], sender |-> sender[t], file_path |-> NoPath,
                     delivered |-> 0]]
    /\ w = [disk |-> <<>>]

NamesNext ==
    \E t \in Transfers :
        \/ NamesDownload(t)
        \/ NamesRename(t)
        \/ NamesUpload(t)
        \/ NamesFinally(t)

NamesSpec == NamesInit /\ [][NamesNext]_vars

\* C18: no two transfers that are active at the same time hold the same
\* local file name.
C18_NoSharedFileName ==
    \A t, u \in Transfers :
        (/\ t # u
         /\ pc[t] # "done" /\ pc[u] # "done"
         /\ loc[t].file_path # NoPath /\ loc[u].file_path # NoPath)
        => loc[t].file_path # loc[u].file_path

\* ------------------------------------ concurrent transfers: progress state
\*
\* Two uploads through upload_with_telethon, by users drawn from Users, call
\* ProgressManager.calculate_progress while they run, in any interleaving
\* (one after the other included).  w.user_progress is the manager's
\* defaultdict: a user has an entry once it was read; w.now is time.time().

\* The size of a file that is not empty, in bytes.
MaxTotal == 2
\* Largest value of the clock.
MaxTime == 1

\* lines 72-74: UserProgress() as the defaultdict creates it.
UserProgress(now) == [previous_done |-> 0, previous_time |-> now]

\* line 185: self.user_progress[user_id] creates the entry when it is missing.
UserData(user_progress, user_id, now) ==
    IF user_id \in DOMAIN user_progress THEN user_progress[user_id]
                                         ELSE UserProgress(now)

\* line 186: (done / total) * 100, in hundredths of a percent; the division
\* raises ZeroDivisionError for total = 0.
Percent(done, total) == (done * 10000) \div total

\* lines 185-212: the snapshot calculate_progress returns, or the exception.
calculate_progress(done, total, user_data) ==
    IF total = 0
    THEN [raised |-> TRUE, percent |-> 0, speed |-> 0]
    ELSE [raised |-> FALSE,
          percent |-> Percent(done, total),
          speed |-> IF done - user_data.previous_done > 0
                    THEN done - user_data.previous_done ELSE 0]

\* line 496: fast_upload begins; nothing of the progress state is touched.
ProgStart(t) ==
    /\ pc[t] = "idle"
    /\ pc' = [pc EXCEPT ![t] = "uploading"]
    /\ loc' = [loc EXCEPT ![t].started = w.now]
    /\ UNCHANGED <<exc, ctx, cfg, w>>

\* line 500 with lines 184-199: one call of calculate_progress(done, total,
\* user_id).  The entry is read (and created) first; lines 197-198 store
\* done and the time when nothing was raised.
ProgObserve(t) ==
    /\ pc[t] = "uploading"
    /\ \E done \in 0..loc[t].total :
          LET user_id == loc[t].user
              user_data == UserData(w.user_progress, user_id, w.now)
              snapshot == calculate_progress(done, loc[t].total, user_data)
          IN  /\ w' = [w EXCEPT !.user_progress =
                          Put(@, user_id,
                              IF snapshot.raised THEN user_data
                              ELSE [previous_done |-> done,
                                    previous_time |-> w.now])]
              /\ loc' = [loc EXCEPT ![t].calls = 1,
                                    ![t].done = done,
                                    ![t].snapshot = snapshot,
                                    ![t].seen = IF loc[t].calls = 0
                                                THEN user_data ELSE @]
              /\ exc' = [exc EXCEPT ![t] = IF snapshot.raised THEN "Error" ELSE @]
              /\ pc' = [pc EXCEPT ![t] = IF snapshot.raised THEN "done" ELSE @]
    /\ UNCHANGED <<ctx, cfg>>

\* lines 504-541: the upload is over.
ProgFinish(t) ==
    /\ pc[t] = "uploading"
    /\ pc' = [pc EXCEPT ![t] = "done"]
    /\ UNCHANGED <<exc, ctx, cfg, loc, w>>

\* time.time() moves on.
ProgTick ==
    /\ w.now < MaxTime
    /\ w' = [w EXCEPT !.now = @ + 1]
    /\ UNCHANGED <<pc, exc, ctx, cfg, loc>>

ProgressInit ==
    /\ pc = [t \in Transfers |-> "idle"]
    /\ exc = [t \in Transfers |-> "none"]
    /\ ctx = "tele"
    /\ cfg = [entry |-> "progress"]
    /\ \E user \in [Transfers -> Users], total \in [Transfers -> {0, MaxTotal}] :
          loc = [t \in Transfers |->
                    [user |-> user[t], total |-> total[t], started |-> 0,
                     calls |-> 0, done |-> 0,
                     snapshot |-> [raised |-> FALSE, percent |-> 0, speed |-> 0],
                     seen |-> UserProgress(0)]]
    /\ w = [user_progress |-> <<>>, now |-> 0]

ProgressNext ==
    \/ \E t \in Transfers :
          \/ ProgStart(t)
          \/ ProgObserve(t)
          \/ ProgFinish(t)
    \/ ProgTick

ProgressSpec == ProgressInit /\ [][ProgressNext]_vars

\* C19: the progress state the first observation of a transfer sees is
\* fresh: previous_done is 0 and previous_time is not older than the
\* transfer, whatever earlier or concurrent transfers did.
C19_FirstObservationFresh ==
    \A t \in Transfers :
        loc[t].calls > 0 =>
            /\ loc[t].seen.previous_done = 0
            /\ loc[t].seen.previous_time >= loc[t].started

\* C20: calculate_progress with total = 0 reports 0 percent and raises
\* nothing; with done = total > 0 it reports 100 percent.
C20_ZeroTotalIsZeroPercent ==
    \A t \in Transfers :
        loc[t].calls > 0 =>
            /\ loc[t].total = 0 =>
                  (~loc[t].snapshot.raised /\ loc[t].snapshot.percent = 0)
            /\ (loc[t].total > 0 /\ loc[t].done = loc[t].total) =>
                  (~loc[t].snapshot.raised /\ loc[t].snapshot.percent = 10000)

\* ------------------------------------------------------ process_filename
\*
\* One call of FileOperations.process_filename on a file whose stem is a
\* short string, for a user whose delete words and replacement words are
\* drawn from small sets.  A string is the sequence of its characters.  The
\* loops of lines 275 and 278 take the words in the order the set and the
\* dict hand them out: loc.dleft and loc.rleft are that order.

\* Longest stem drawn.
MaxLen == 3

Chars == {"a", "b", " "}

RECURSIVE Strings(_)
Strings(n) ==
    IF n = 0 THEN {<<>>}
    ELSE Strings(n - 1)
            \cup {Append(s, c) : s \in {x \in Strings(n - 1) : Len(x) = n - 1},
                                 c \in Chars}

\* The words a user can have stored.
Words == {<<"a">>, <<"b">>, <<"a", "b">>, <<"b", "b">>}

Replacements == {<<>>, <<"a">>, <<"b">>}

\* Every order in which the elements of S can be handed out.
Orders(S) ==
    {s \in [1..Cardinality(S) -> S] : \A i, j \in 1..Cardinality(S) :
                                          s[i] = s[j] => i = j}

\* str.replace(old, new) for a non-empty old: every occurrence, leftmost
\* first, none overlapping.
RECURSIVE Replace(_, _, _)
Replace(s, old, new) ==
    IF Len(s) < Len(old) THEN s
    ELSE IF SubSeq(s, 1, Len(old)) = old
         THEN new \o Replace(SubSeq(s, Len(old) + 1, Len(s)), old, new)
         ELSE <<Head(s)>> \o Replace(Tail(s), old, new)

Whitespace == {" ", "\n"}

\* str.strip() of the whitespace at both ends.
RECURSIVE Strip(_)
Strip(s) ==
    IF s = <<>> THEN s
    ELSE IF Head(s) \in Whitespace THEN Strip(Tail(s))
    ELSE IF s[Len(s)] \in Whitespace THEN Strip(SubSeq(s, 1, Len(s) - 1))
    ELSE s

\* line 275-276: one round of the loop over delete_words.
RwDelete ==
    /\ pc = "rw_delete"
    /\ loc.dleft # <<>>
    /\ loc' = [loc EXCEPT !.name = Replace(@, Head(loc.dleft), <<>>),
                          !.dleft = Tail(@)]
    /\ UNCHANGED <<pc, exc, ctx, cfg, w>>

\* line 278: the loop over delete_words is over.
RwDeleted ==
    /\ pc = "rw_delete"
    /\ loc.dleft = <<>>
    /\ pc' = "rw_replace"
    /\ UNCHANGED <<exc, ctx, cfg, loc, w>>

\* lines 278-279: one round of the loop over replacements.items().
RwReplace ==
    /\ pc = "rw_replace"
    /\ loc.rleft # <<>>
    /\ loc' = [loc EXCEPT !.name = Replace(@, Head(loc.rleft),
                                           cfg.replacements[Head(loc.rleft)]),
                          !.rleft = Tail(@)]
    /\ UNCHANGED <<pc, exc, ctx, cfg, w>>

\* lines 285-289: the new name "<name.strip()> <rename_tag>.<extension>";
\* the file is renamed to it.
RwRename ==
    /\ pc = "rw_replace"
    /\ loc.rleft = <<>>
    /\ loc' = [loc EXCEPT !.stem = Strip(loc.name)]
    /\ w' = [w EXCEPT !.file = Strip(loc.name)]
    /\ pc' = "done"
    /\ UNCHANGED <<exc, ctx, cfg>>

RewriteInit ==
    /\ pc = "rw_delete"
    /\ exc = "none"
    /\ ctx = "caller"
    /\ \E name \in Strings(MaxLen) :
       \E delete_words \in {D \in SUBSET Words : Cardinality(D) <= 2} :
       \E keys \in SUBSET {<<"a">>, <<"b">>} :
       \E replacements \in [keys -> Replacements \ {<<>>}] :
       \E dorder \in Orders(delete_words), rorder \in Orders(keys) :
          /\ cfg = [entry |-> "process_filename", name |-> name,
                    delete_words |-> delete_words,
                    replacements |-> replacements]
          /\ loc = [name |-> name, dleft |-> dorder, rleft |-> rorder,
                    stem |-> <<>>]
          /\ w = [file |-> name]

RewriteNext ==
    \/ RwDelete
    \/ RwDeleted
    \/ RwReplace
    \/ RwRename

RewriteSpec == RewriteInit /\ [][RewriteNext]_vars

\* The stem process_filename produces when the delete words are handed out
\* in the order ds and the replacement words in the order rs.
RECURSIVE DeleteAll(_, _)
DeleteAll(name, ds) ==
    IF ds = <<>> THEN name ELSE DeleteAll(Replace(name, Head(ds), <<>>), Tail(ds))

RECURSIVE ReplaceAll(_, _, _)
ReplaceAll(name, rs, replacements) ==
    IF rs = <<>> THEN name
    ELSE ReplaceAll(Replace(name, Head(rs), replacements[Head(rs)]), Tail(rs),
                    replacements)

\* C21: the stem process_filename produces is the same for every iteration
\* order of the delete words and every iteration order of the replacements.
C21_StemOrderIndependent ==
    pc = "done" =>
        \A ds \in Orders(cfg.delete_words) :
        \A rs \in Orders(DOMAIN cfg.replacements) :
            Strip(ReplaceAll(DeleteAll(cfg.name, ds), rs, cfg.replacements))
                = loc.stem

\* ------------------------------------------------------ markdown_to_html
\*
\* CaptionFormatter.markdown_to_html applied to a caption and then to its own
\* output.  A caption is a sequence of characters; a tag the function writes
\* is one element of the sequence ("<b>", "</b>", ...), which loses nothing:
\* a tag holds none of the characters the patterns look for, except the ">"
\* that ends it, and that ">" never begins a line.  "tick" is the backquote
\* character.

\* Most pieces a drawn caption is made of.
MaxPieces == 3

Pieces ==
    {<<">", " ">>, <<"x">>, <<" ">>, <<"\n">>, <<"*">>, <<"_">>, <<"tick">>,
     <<"~", "~">>, <<"|", "|">>, <<"[", "x", "]", "(", "x", ")">>}

RECURSIVE Captions(_)
Captions(n) ==
    IF n = 0 THEN {<<>>}
    ELSE Captions(n - 1) \cup {c \o p : c \in Captions(n - 1), p \in Pieces}

Least(S) == CHOOSE x \in S : \A y \in S : x <= y

StartsAt(s, d, i) ==
    /\ i >= 1
    /\ i + Len(d) - 1 <= Len(s)
    /\ SubSeq(s, i, i + Len(d) - 1) = d

\* line 224, the quote pattern under MULTILINE and DOTALL: the first "> "
\* that begins a line matches with everything up to the end of the caption,
\* line breaks included.
SubQuote(s) ==
    LET starts == {i \in 1..Len(s) : /\ StartsAt(s, <<">", " ">>, i)
                                     /\ (i = 1 \/ s[i - 1] = "\n")}
    IN  IF starts = {} THEN s
        ELSE LET i == Least(starts)
             IN  SubSeq(s, 1, i - 1) \o <<"<blockquote>">>
                    \o SubSeq(s, i + 2, Len(s)) \o <<"</blockquote>">>

\* lines 225-232, a pattern of two equal delimiters d around a lazy group:
\* the leftmost d that has another d after it matches up to the nearest
\* one; the search goes on after the match.
RECURSIVE SubPair(_, _, _, _)
SubPair(s, d, open, close) ==
    LET ends(i) == {j \in (i + Len(d))..Len(s) : StartsAt(s, d, j)}
        starts == {i \in 1..Len(s) : StartsAt(s, d, i) /\ ends(i) # {}}
    IN  IF starts = {} THEN s
        ELSE LET i == Least(starts)
                 j == Least(ends(i))
             IN  SubSeq(s, 1, i - 1) \o <<open>>
                    \o SubSeq(s, i + Len(d), j - 1) \o <<close>>
                    \o SubPair(SubSeq(s, j + Len(d), Len(s)), d, open, close)

\* line 233, the link pattern: a bracketed text followed at once by a
\* parenthesised address becomes an anchor tag around the text.
RECURSIVE SubLink(_)
SubLink(s) ==
    LET closes(j) == {k \in (j + 2)..Len(s) : s[k] = ")"}
        mids(i) == {j \in (i + 1)..Len(s) :
                        StartsAt(s, <<"]", "(">>, j) /\ closes(j) # {}}
        starts == {i \in 1..Len(s) : s[i] = "[" /\ mids(i) # {}}
    IN  IF starts = {} THEN s
        ELSE LET i == Least(starts)
                 j == Least(mids(i))
                 k == Least(closes(j))
             IN  SubSeq(s, 1, i - 1) \o <<"<a href=\"">>
                    \o SubSeq(s, j + 2, k - 1) \o <<"\">">>
                    \o SubSeq(s, i + 1, j - 1) \o <<"</a>">>
                    \o SubLink(SubSeq(s, k + 1, Len(s)))

\* lines 223-234: the patterns, in the order of the list.
MdPatterns ==
    << [kind |-> "quote"],
       [kind |-> "pair", d |-> <<"tick", "tick", "tick">>, open |-> "<pre>", close |-> "</pre>"],
       [kind |-> "pair", d |-> <<"tick">>, open |-> "<code>", close |-> "</code>"],
       [kind |-> "pair", d |-> <<"*", "*">>, open |-> "<b>", close |-> "</b>"],
       [kind |-> "pair", d |-> <<"*">>, open |-> "<b>", close |-> "</b>"],
       [kind |-> "pair", d |-> <<"_", "_">>, open |-> "<i>", close |-> "</i>"],
       [kind |-> "pair", d |-> <<"_">>, open |-> "<i>", close |-> "</i>"],
       [kind |-> "pair", d |-> <<"~", "~">>, open |-> "<s>", close |-> "</s>"],
       [kind |-> "pair", d |-> <<"|", "|">>, open |-> "<details>", close |-> "</details>"],
       [kind |-> "link"] >>

Sub(p, s) ==
    IF p.kind = "quote" THEN SubQuote(s)
    ELSE IF p.kind = "link" THEN SubLink(s)
    ELSE SubPair(s, p.d, p.open, p.close)

\* lines 220-221: an empty caption gives "".
MdEmpty ==
    /\ pc = "md_entry"
    /\ loc.caption = <<>>
    /\ w' = [w EXCEPT !.html = Append(@, <<>>)]
    /\ pc' = "md_returned"
    /\ UNCHANGED <<exc, ctx, cfg, loc>>

\* line 236: result = caption.
MdStart ==
    /\ pc = "md_entry"
    /\ loc.caption # <<>>
    /\ loc' = [loc EXCEPT !.result = loc.caption, !.pattern = 1]
    /\ pc' = "md_sub"
    /\ UNCHANGED <<exc, ctx, cfg, w>>

\* lines 237-238: one round of the loop over the patterns.
MdSub ==
    /\ pc = "md_sub"
    /\ loc.pattern <= Len(MdPatterns)
    /\ loc' = [loc EXCEPT !.result = Sub(MdPatterns[loc.pattern], @),
                          !.pattern = @ + 1]
    /\ UNCHANGED <<pc, exc, ctx, cfg, w>>

\* line 240: return result.strip().
MdReturn ==
    /\ pc = "md_sub"
    /\ loc.pattern > Len(MdPatterns)
    /\ w' = [w EXCEPT !.html = Append(@, Strip(loc.result))]
    /\ pc' = "md_returned"
    /\ UNCHANGED <<exc, ctx, cfg, loc>>

\* The caller converts the output once more.
MdAgain ==
    /\ pc = "md_returned"
    /\ Len(w.html) = 1
    /\ loc' = [caption |-> w.html[1], result |-> <<>>, pattern |-> 0]
    /\ pc' = "md_entry"
    /\ UNCHANGED <<exc, ctx, cfg, w>>

MarkdownInit ==
    /\ pc = "md_entry"
    /\ exc = "none"
    /\ ctx = "caller"
    /\ \E caption \in Captions(MaxPieces) :
          /\ cfg = [entry |-> "markdown_to_html", caption |-> caption]
          /\ loc = [caption |-> caption, result |-> <<>>, pattern |-> 0]
    /\ w = [html |-> <<>>]

MarkdownNext ==
    \/ MdEmpty
    \/ MdStart
    \/ MdSub
    \/ MdReturn
    \/ MdAgain

MarkdownSpec == MarkdownInit /\ [][MarkdownNext]_vars

\* C22: markdown_to_html is idempotent on its own output: converting the
\* output of a conversion gives that output again.
C22_MarkdownIdempotent ==
    Len(w.html) = 2 => w.html[2] = w.html[1]

\* ------------------------------------------------------ preference cache
\*
\* DatabaseManager's cache in front of the store, driven by the handlers that
\* read and write preferences.  A stored or cached value is a sequence of at
\* most one element: <<>> is "no field" in the store and "no entry" in the
\* cache.  A replacement dict is the set of its <<old, new>> pairs, a
\* delete-word list the set of its words.

\* The user whose preferences are followed.
PrefUsers == {"u1"}

PrefKeys == {"rename_tag", "replacement_words", "delete_words"}

\* lines 128-133: the fields reset_user_data unsets that the model holds.
ResetKeys == {"rename_tag", "replacement_words", "delete_words"}

PrefWords == {"a"}

NewWords == {"x", "y"}

\* The default each caller passes for the key (lines 266-268, 1110, 1115).
Default(key) ==
    IF key = "rename_tag" THEN "Team SPY" ELSE {}

\* lines 85-86: doc.get(key, default) if doc else default.
Stored(store, user_id, key) ==
    IF store[user_id][key] # <<>> THEN store[user_id][key][1] ELSE Default(key)

\* lines 79-91, get_user_data: the value returned, the cache afterwards, and
\* whether the object returned is the very object the cache holds.
get_user_data(db, user_id, key, readOk) ==
    IF db.cache[user_id][key] # <<>>
    THEN [value |-> db.cache[user_id][key][1], cache |-> db.cache, shared |-> TRUE]
    ELSE IF readOk
    THEN [value |-> Stored(db.store, user_id, key),
          cache |-> [db.cache EXCEPT ![user_id][key] =
                                        <<Stored(db.store, user_id, key)>>],
          shared |-> TRUE]
    ELSE [value |-> Default(key), cache |-> db.cache, shared |-> FALSE]

\* lines 93-105, save_user_data.
save_user_data(db, user_id, key, value, saveOk) ==
    IF saveOk
    THEN [db EXCEPT !.store[user_id][key] = <<value>>,
                    !.cache[user_id][key] = <<value>>,
                    !.last[user_id] = [op |-> "save", key |-> key,
                                       value |-> <<value>>, ok |-> TRUE]]
    ELSE [db EXCEPT !.last[user_id] = [op |-> "save", key |-> key,
                                       value |-> <<value>>, ok |-> FALSE]]

\* lines 107-111, clear_user_cache.
clear_user_cache(cache, user_id) ==
    [cache EXCEPT ![user_id] = [k \in PrefKeys |-> <<>>]]

\* lines 126-140, reset_user_data.
reset_user_data(db, user_id, resetOk) ==
    IF resetOk
    THEN [db EXCEPT !.store[user_id] =
                        [k \in PrefKeys |-> IF k \in ResetKeys THEN <<>> ELSE @[k]],
                    !.cache = clear_user_cache(@, user_id),
                    !.last[user_id] = [op |-> "reset", key |-> "", value |-> <<>>,
                                       ok |-> TRUE]]
    ELSE [db EXCEPT !.last[user_id] = [op |-> "reset", key |-> "", value |-> <<>>,
                                       ok |-> FALSE]]

\* dict[old_word] = new_word.
SetItem(d, old_word, new_word) ==
    {p \in d : p[1] # old_word} \cup {<<old_word, new_word>>}

\* lines 266-268: a transfer reads a preference.
PrefRead(user_id) ==
    \E key \in PrefKeys, readOk \in BOOLEAN :
        /\ w' = [w EXCEPT !.cache = get_user_data(w, user_id, key, readOk).cache]
        /\ UNCHANGED <<pc, exc, ctx, cfg, loc>>

\* lines 1092-1095: the setrename session.
PrefSetRename(user_id) ==
    \E rename_tag \in RenameTags, saveOk \in BOOLEAN :
        /\ w' = save_user_data(w, user_id, "rename_tag", rename_tag, saveOk)
        /\ UNCHANGED <<pc, exc, ctx, cfg, loc>>

\* lines 1103-1118: the setreplacement session.  The dict get_user_data
\* returns is changed in place before it is saved; when it is the object the
\* cache holds, the cache entry changes with it.
PrefSetReplacement(user_id) ==
    \E old_word \in PrefWords, new_word \in NewWords :
    \E readOk1, readOk2, saveOk \in BOOLEAN :
        LET got1 == get_user_data(w, user_id, "delete_words", readOk1)
            db1 == [w EXCEPT !.cache = got1.cache]
            got2 == get_user_data(db1, user_id, "replacement_words", readOk2)
            replacements == SetItem(got2.value, old_word, new_word)
            db2 == [db1 EXCEPT !.cache =
                        IF got2.shared
                        THEN [got2.cache EXCEPT
                                ![user_id]["replacement_words"] = <<replacements>>]
                        ELSE got2.cache]
        IN  /\ w' = IF old_word \in got1.value THEN db1
                    ELSE save_user_data(db2, user_id, "replacement_words",
                                        replacements, saveOk)
            /\ UNCHANGED <<pc, exc, ctx, cfg, loc>>

\* lines 1125-1130: the deleteword session.
PrefDeleteWord(user_id) ==
    \E word \in PrefWords, readOk, saveOk \in BOOLEAN :
        LET got == get_user_data(w, user_id, "delete_words", readOk)
            db1 == [w EXCEPT !.cache = got.cache]
        IN  /\ w' = save_user_data(db1, user_id, "delete_words",
                                   got.value \cup {word}, saveOk)
            /\ UNCHANGED <<pc, exc, ctx, cfg, loc>>

\* line 1041: the reset command.
PrefReset(user_id) ==
    \E resetOk \in BOOLEAN :
        /\ w' = reset_user_data(w, user_id, resetOk)
        /\ UNCHANGED <<pc, exc, ctx, cfg, loc>>

PrefInit ==
    /\ pc = "idle"
    /\ exc = "none"
    /\ ctx = "caller"
    /\ cfg = [entry |-> "preferences"]
    /\ loc = [user_id |-> ""]
    /\ w = [store |-> [u \in PrefUsers |-> [k \in PrefKeys |-> <<>>]],
            cache |-> [u \in PrefUsers |-> [k \in PrefKeys |-> <<>>]],
            last |-> [u \in PrefUsers |-> [op |-> "none", key |-> "", value |-> <<>>,
                                       ok |-> TRUE]]]

PrefNext ==
    \E user_id \in PrefUsers :
        \/ PrefRead(user_id)
        \/ PrefSetRename(user_id)
        \/ PrefSetReplacement(user_id)
        \/ PrefDeleteWord(user_id)
        \/ PrefReset(user_id)

PrefSpec == PrefInit /\ [][PrefNext]_vars

\* What get_user_data(user_id, key, Default(key)) returns while the store
\* answers.
Served(user_id, key) == get_user_data(w, user_id, key, TRUE).value

\* C23: the cache never serves a value older than the user's last successful
\* write or reset: after a successful save of v under k a read of k gives v,
\* after a successful reset a read of any reset key gives the default, and
\* after a failed save or reset every cached entry equals what the store holds.
C23_CacheNeverStale ==
    \A u \in PrefUsers :
        /\ (w.last[u].op = "save" /\ w.last[u].ok)
                => Served(u, w.last[u].key) = w.last[u].value[1]
        /\ (w.last[u].op = "reset" /\ w.last[u].ok)
                => \A k \in ResetKeys : Served(u, k) = Default(k)
        /\ (w.last[u].op \in {"save", "reset"} /\ ~w.last[u].ok)
                => \A k \in PrefKeys :
                      w.cache[u][k] # <<>> => w.cache[u][k][1] = Stored(w.store, u, k)

\* C24: in the story path, once the story has been downloaded to a local
\* file, that file no longer exists when the transfer exits, whether the send
\* to the requester succeeds or fails.  Exits by cancellation are left out.
C24_StoryFileRemovedOnExit ==
    (pc = "done" /\ cfg.link = "story" /\ loc.path_returned /\ ~w.cancelled)
        => "story" \notin w.files

\* C25: get_msg never lets an exception escape to its caller: whichever
\* collaborator calls fail, a transfer that is not cancelled ends without an
\* exception.
C25_NoExceptionEscapes ==
    (pc = "done" /\ cfg.entry = "get_msg" /\ ~w.cancelled) => exc = "none"

\* C26: a t.me/b/ link to a chat that is in the set of protected channels
\* read at the start of the transfer ends before any fetch, as a t.me/c/
\* link does: no get_messages, no download, no upload.
C26_BotLinkProtected ==
    (cfg.link = "bot" /\ IntId(LinkChannel) \in loc.protected_channels) =>
        /\ w.fetched = 0
        /\ w.downloads = 0
        /\ w.sent = <<>>
        /\ pc \in {"pml_protected", "hmd_except", "hmd_finally", "done"}

\* ------------------------------------------------------- message identity
\*
\* A batch over one link: get_msg is called with the offsets 0, 1, ... and
\* each call parses the link and fetches a message.  What a call does after
\* its fetch is left out.

\* Largest message number written in a link.
MaxLinkId == 3

\* Largest number of calls in a batch.
MaxBatch == 3

IdLinks == {"private", "bot", "public"}

\* lines 708-713 and 734-738: the message identity _parse_message_link
\* derives.  Only the t.me/c/ and t.me/b/ branches add the offset.
MsgId(link, link_id, offset) ==
    IF link \in {"private", "bot"} THEN link_id + offset ELSE link_id

\* lines 1156-1158: the next call of the batch, with its link parsed.
BatchCall ==
    /\ pc = "batch"
    /\ loc.offset < cfg.n
    /\ loc' = [loc EXCEPT !.msg_id = MsgId(cfg.link, cfg.link_id, loc.offset)]
    /\ pc' = "batch_fetch"
    /\ UNCHANGED <<exc, ctx, cfg, w>>

\* line 631 and line 813: get_messages(chat, msg_id).  A failed fetch ends
\* the call; the batch goes on.
BatchFetch ==
    /\ pc = "batch_fetch"
    /\ \E ok \in BOOLEAN :
          w' = IF ok
               THEN [w EXCEPT !.fetched = Append(@, [offset |-> loc.offset,
                                                     msg_id |-> loc.msg_id])]
               ELSE [w EXCEPT !.raised = @ + 1]
    /\ loc' = [loc EXCEPT !.offset = @ + 1]
    /\ pc' = "batch"
    /\ UNCHANGED <<exc, ctx, cfg>>

BatchEnd ==
    /\ pc = "batch"
    /\ loc.offset = cfg.n
    /\ pc' = "done"
    /\ UNCHANGED <<exc, ctx, cfg, loc, w>>

BatchInit ==
    /\ pc = "batch"
    /\ exc = "none"
    /\ ctx = "caller"
    /\ \E link \in IdLinks, link_id \in 1..MaxLinkId, n \in 1..MaxBatch :
          cfg = [entry |-> "batch", link |-> link, link_id |-> link_id, n |-> n]
    /\ loc = [offset |-> 0, msg_id |-> 0]
    /\ w = [fetched |-> <<>>, raised |-> 0]

BatchNext ==
    \/ BatchCall
    \/ BatchFetch
    \/ BatchEnd

BatchSpec == BatchInit /\ [][BatchNext]_vars

\* C27: for a private, a bot-scoped and a public link the message fetched is
\* the one whose identity is the identity written in the link plus the
\* offset, so a batch over the offsets 0..n-1 fetches n distinct messages.
C27_FetchedIdIsLinkPlusOffset ==
    \A j \in 1..Len(w.fetched) :
        w.fetched[j].msg_id = cfg.link_id + w.fetched[j].offset

\* C28: parts are written and uploaded in the order 0, 1, 2, ...: the part
\* with index n is stored in a file whose name carries n zero-padded to three
\* digits, and is uploaded with a caption numbered n + 1: the base caption, a
\* blank line and the number when there is a base caption, the number alone
\* otherwise.
C28_PartsInOrder ==
    /\ \A j \in 1..Len(w.written) :
          Len(w.written[j]) = 3 /\ Number(w.written[j]) = j - 1
    /\ Len(w.uploaded) <= Len(w.written)
    /\ \A j \in 1..Len(w.uploaded) :
          /\ w.uploaded[j].file = w.written[j]
          /\ w.uploaded[j].caption =
                (IF loc.caption # "" THEN <<loc.caption, "\n\n">> ELSE <<>>)
                    \o <<"**Part: ">> \o Digits(j) \o <<"**">>

C28_ThreePartsUploaded ==
    /\ pc = "done"
    /\ Len(w.uploaded) = 3
    /\ loc.caption # ""

\* The finally blocks that clean up.
CleanupPcs ==
    {"slf_part_finally", "slf_finally", "pyro_finally", "hlu_finally",
     "hmd_finally", "cpm_finally"}

\* Where the exception in flight at a cleanup position goes when the cleanup
\* does not disturb it.
AfterCleanup ==
    CASE pc = "slf_part_finally" -> Target("slf_finally", exc, ctx)
      [] pc = "hmd_finally" -> Target("done", exc, "hmd")
      [] pc = "cpm_finally" -> Target("hmd_finally", exc, "hmd")
      [] OTHER -> Propagate(exc)

\* C29: a failure while removing a file or deleting a status message during
\* cleanup never replaces the primary error: when an error E is in flight in
\* a finally block, E is the error that leaves the block, whether the cleanup
\* step succeeds or fails.  Cancelled transfers are left out.
C29_CleanupKeepsPrimaryError ==
    [][(pc \in CleanupPcs /\ exc # "none" /\ ~w.cancelled /\ ~w'.cancelled)
            => Target(pc', exc', ctx') = AfterCleanup]_vars

\* C30: one transfer of a t.me/c/ or t.me/b/ link that uploads no part of a
\* split file sends the content to the user's target at most once, whatever
\* succeeds and whatever fails.
C30_TargetReachedAtMostOnce ==
    (cfg.entry = "get_msg" /\ cfg.link \in {"private", "bot"} /\ w.uploaded = <<>>)
        => Len(w.sent) <= 1

\* C31: once a channel is locked, no transfer fetches, downloads or delivers
\* content of that channel, whatever the class of the link that names it and
\* whether or not the read of the protected set succeeds.
C31_LockedChannelNeverServed ==
    (cfg.entry = "get_msg" /\ LinkChannel \in w.locked /\ cfg.link # "invalid") =>
        /\ w.fetched = 0
        /\ w.primaryTried = 0
        /\ w.downloads = 0
        /\ w.sent = <<>>
        /\ w.storySends = 0

\* C32: after any sequence of setreplacement, deleteword and reset inputs of
\* one user, no word is both in that user's stored delete words and a key of
\* that user's stored replacements.
C32_DeleteAndReplaceDisjoint ==
    \A u \in PrefUsers :
        \A p \in Stored(w.store, u, "replacement_words") :
            p[1] \notin Stored(w.store, u, "delete_words")

\* ------------------------------------------------------------ target chat
\*
\* One user's setchat inputs and the transfers that parse the stored target.
\* A text is the sequence of its characters.  w.target is user_chat_ids[user]:
\* <<>> while the user has none, <<text>> once one is stored.

\* Longest setchat text drawn.
MaxText == 3

\* Most setchat inputs of the user.
MaxInputs == 2

\* A digit, the sign, the separator and a letter.
TargetChars == {"1", "-", "/", "x"}

RECURSIVE Texts(_)
Texts(n) ==
    IF n = 0 THEN {<<>>}
    ELSE Texts(n - 1)
            \cup {Append(s, c) : s \in {x \in Texts(n - 1) : Len(x) = n - 1},
                                 c \in TargetChars}

\* str.split('/')
RECURSIVE SplitSlash(_)
SplitSlash(s) ==
    LET at == {i \in 1..Len(s) : s[i] = "/"}
    IN  IF at = {} THEN <<s>>
        ELSE LET i == Least(at)
             IN  <<SubSeq(s, 1, i - 1)>> \o SplitSlash(SubSeq(s, i + 1, Len(s)))

\* int(s) succeeds: blanks around an optional sign and at least one digit.
IsInt(s) ==
    LET t == Strip(s)
        d == IF t # <<>> /\ Head(t) = "-" THEN Tail(t) ELSE t
    IN  d # <<>> /\ \A i \in 1..Len(d) : d[i] \in {"1"}

\* lines 369-374, parse_target_chat: the pair it returns, or a ValueError.
parse_target_chat(target) ==
    LET parts == SplitSlash(target)
    IN  IF \E i \in 1..Len(target) : target[i] = "/"
        THEN IF IsInt(parts[1]) /\ IsInt(parts[2])
             THEN [chat |-> Strip(parts[1]), topic |-> Strip(parts[2])]
             ELSE [chat |-> "ValueError", topic |-> <<>>]
        ELSE IF IsInt(target)
             THEN [chat |-> Strip(target), topic |-> <<>>]
             ELSE [chat |-> "ValueError", topic |-> <<>>]

\* The texts a user can send: a message text is never blank.
TargetTexts == {t \in Texts(MaxText) : Strip(t) # <<>>}

\* lines 1084-1090: the setchat session stores the stripped text and
\* confirms; nothing in the try block raises ValueError.  The handler is
\* its own task, so it can run while a transfer of the same user is under
\* way.
TargetSetChat ==
    /\ pc \in {"idle", "resolved"}
    /\ \E text \in TargetTexts :
          /\ w' = [w EXCEPT !.target = <<Strip(text)>>, !.reply = "target_set",
                            !.inputs = @ + 1]
          /\ loc' = [text |-> text, before |-> w.target]
    /\ w.inputs < MaxInputs
    /\ UNCHANGED <<pc, exc, ctx, cfg>>

\* lines 626-628: a transfer reads the stored target, or the requester's own
\* id when none is stored, and parses it.
\* self.user_chat_ids.get(key, str(key)): setchat stores under the user's
\* own id, so the entry is found only when the key is that id.  The user's
\* id is 1, the id of a group the user writes in is -1.
StoredTarget(key) ==
    IF key = "sender" THEN (IF w.target # <<>> THEN w.target[1] ELSE <<"1">>)
    ELSE <<"-", "1">>

TargetResolve ==
    /\ pc = "idle"
    /\ LET parsed == parse_target_chat(StoredTarget(cfg.chat))
       IN  /\ w' = [w EXCEPT !.resolved = <<parsed>>, !.delivered = <<>>]
           /\ exc' = IF parsed.chat = "ValueError" THEN "Error" ELSE "none"
           /\ pc' = IF parsed.chat = "ValueError" THEN "ended" ELSE "resolved"
    /\ UNCHANGED <<ctx, cfg, loc>>

Strategies == {"Photo", "Pyrogram", "Telethon", "Split", "Elevated"}

\* lines 664, 680, 689, 691: the photo send, the split and the two
\* adapters get target_chat_id and topic_id from handle_message_download.
\* lines 555-556 and 598-603: handle_large_file_upload reads the stored
\* target again, under the sender's id, drops the topic and copies to the
\* chat alone.
TargetDeliver ==
    /\ pc = "resolved"
    /\ \E strategy \in Strategies :
          LET again == parse_target_chat(StoredTarget("sender"))
              to == IF strategy = "Elevated"
                    THEN [chat |-> again.chat, topic |-> <<>>]
                    ELSE w.resolved[1]
          IN  /\ w' = IF to.chat = "ValueError" THEN w
                      ELSE [w EXCEPT !.delivered =
                                <<[strategy |-> strategy, chat |-> to.chat,
                                   topic |-> to.topic]>>]
              /\ exc' = IF to.chat = "ValueError" THEN "Error" ELSE "none"
    /\ pc' = "ended"
    /\ UNCHANGED <<ctx, cfg, loc>>

\* The transfer is over; the user can send the next input.
TargetEnd ==
    /\ pc = "ended"
    /\ pc' = "idle"
    /\ exc' = "none"
    /\ UNCHANGED <<ctx, cfg, loc, w>>

TargetInit ==
    /\ pc = "idle"
    /\ exc = "none"
    /\ ctx = "caller"
    /\ \E chat \in {"sender", "group"} : cfg = [entry |-> "setchat", chat |-> chat]
    /\ loc = [text |-> <<>>, before |-> <<>>]
    /\ w = [target |-> <<>>, reply |-> "none", inputs |-> 0, resolved |-> <<>>,
            delivered |-> <<>>]

TargetNext ==
    \/ TargetSetChat
    \/ TargetResolve
    \/ TargetDeliver
    \/ TargetEnd

TargetSpec == TargetInit /\ [][TargetNext]_vars

\* The form the claim names: integer, or integer/integer.
WellFormed(text) ==
    LET parts == SplitSlash(text)
    IN  Len(parts) \in {1, 2} /\ \A i \in 1..Len(parts) : IsInt(parts[i])

\* C33: a setchat input that is not an integer or integer/integer is
\* rejected and leaves the stored target unchanged, so no transfer fails to
\* parse the stored target.
C33_StoredTargetAlwaysParses ==
    /\ (w.inputs > 0 /\ ~WellFormed(loc.text)) =>
            (w.reply = "invalid_format" /\ w.target = loc.before)
    /\ exc = "none"

\* C34: within one transfer every delivery strategy sends to the chat and
\* the topic that handle_message_download resolved at the start of that
\* transfer.
C34_DeliveredToResolvedTarget ==
    \A i \in 1..Len(w.delivered) :
        /\ w.delivered[i].chat = w.resolved[1].chat
        /\ w.delivered[i].topic = w.resolved[1].topic

\* C35: when a transfer that fetched its message ends without a raised call
\* and without cancellation, and no delete of the status message failed,
\* the status message of the requester's chat has been deleted.
C35_StatusDeletedOnSuccess ==
    (/\ pc = "done" /\ cfg.entry = "get_msg" /\ cfg.link \in {"private", "bot"}
     /\ w.fetched > 0 /\ w.raised = 0 /\ ~w.cancelled
     /\ (w.delTried => w.status = "deleted"))
    => w.status = "deleted"

\* Where the entitlement check gives one answer throughout a transfer, no
\* copy with protect_content is ever made: the orchestrator enters
\* handle_large_file_upload only after the answer 0, and the adapter makes
\* the restricted copy only after the answer 1.
RestrictedCopyNeedsChangedAnswer ==
    \A i \in 1..Len(w.sent) :
        w.sent[i].op = "copy_message_protected" =>
            (loc.free_check = 0 /\ loc.free_check2 = 1)

\* C36: the restricted-copy branch of handle_large_file_upload is reached
\* from the orchestrator by a non-entitled caller: with the pro client
\* configured and an oversized file, a transfer of a caller the check
\* reports as free, in which no call fails, takes the Elevated adapter and
\* ends with the restricted copy delivered.
C36_NonEntitledGetsRestrictedCopy ==
    (/\ pc = "done" /\ cfg.entry = "get_msg"
     /\ loc.strategy \in {"Split", "Elevated"}
     /\ loc.free_check = 1 /\ loc.pro_client
     /\ w.raised = 0 /\ ~w.cancelled)
    => /\ loc.strategy = "Elevated"
       /\ loc.free_check2 = 1
       /\ \E i \in 1..Len(w.sent) : w.sent[i].op = "copy_message_protected"

====
